---- MODULE Spec2Model ----
(***************************************************************************)
(* Resolution engine of the Tekla Open API documentation server:           *)
(* TeklaApiDocumentation (startup loading, record store, search, class /   *)
(* method lookup, namespace browsing, code examples, statistics),          *)
(* OnlineApiFallback (remote fallback with its cache and its quality       *)
(* heuristic) and HtmlParser.parseClassDetails (deep detail parse attached *)
(* lazily to a class record); the lightweight parser that produces the     *)
(* persisted files from the navigation document and the pages; and the     *)
(* CallTool request handler of the MCP server.                             *)
(*                                                                         *)
(* JavaScript strings are TLA+ strings; the string methods the code uses   *)
(* (toLowerCase, includes, startsWith, endsWith, replace, trim) are        *)
(* computed character by character.  null / undefined / an absent property *)
(* is the empty sequence <<>>, a present value v is <<v>>.                  *)
(***************************************************************************)
EXTENDS Integers, Sequences, FiniteSets, TLC

VARIABLES
    apiData,      \* this.apiData: the combined collection (full-api.json)
    classes,      \* this.classes: the class partition (classes.json)
    methods,      \* this.methods: the method partition (methods.json)
    searchIndex,  \* this.searchIndex: <<>> (null) or <<search-index.json entries>>
    cache,        \* OnlineApiFallback.cache: Map from cache key to result list
    pages,        \* extracted-docs/html: htmlFile -> page on disk
    edits,        \* how many times a page was rewritten on disk
    properties,   \* this.properties: the property partition (properties.json)
    namespaces,   \* this.namespaces: the namespace partition (namespaces.json)
    enums,        \* this.enums: the enum partition (enums.json)
    interfaces,   \* this.interfaces: the interface partition (interfaces.json)
    examples,     \* this.examples: the code examples (examples.json)
    remoteUp,     \* whether a lookup of the online reference succeeds (FALSE: it throws)
    pc,           \* per request slot: where its async operation is suspended
    req,          \* per request slot: the operation and its arguments
    local,        \* per request slot: the locals that live across an await
    ret           \* per request slot: the value the last operation resolved to

vars == <<apiData, classes, methods, searchIndex, cache, pages, edits, properties, namespaces,
          enums, interfaces, examples, remoteUp, pc, req, local, ret>>

\* the fields and the surroundings no engine operation assigns
fixed == <<properties, namespaces, enums, interfaces, examples, remoteUp>>

(***************************************************************************)
(* Bounds of the model.                                                    *)
(***************************************************************************)
MaxClasses == 3    \* records in the class partition
MaxItems == 3      \* records in the combined collection when it is varied
MaxEdits == 2      \* times a source page is rewritten on disk during a run

Procs == {1, 2}    \* request slots (the host may pipeline two requests)

(***************************************************************************)
(* String.prototype methods.                                               *)
(***************************************************************************)
toLowerChar(c) ==
    CASE c = "A" -> "a" [] c = "B" -> "b" [] c = "C" -> "c" [] c = "D" -> "d"
      [] c = "E" -> "e" [] c = "F" -> "f" [] c = "G" -> "g" [] c = "H" -> "h"
      [] c = "I" -> "i" [] c = "J" -> "j" [] c = "K" -> "k" [] c = "L" -> "l"
      [] c = "M" -> "m" [] c = "N" -> "n" [] c = "O" -> "o" [] c = "P" -> "p"
      [] c = "Q" -> "q" [] c = "R" -> "r" [] c = "S" -> "s" [] c = "T" -> "t"
      [] c = "U" -> "u" [] c = "V" -> "v" [] c = "W" -> "w" [] c = "X" -> "x"
      [] c = "Y" -> "y" [] c = "Z" -> "z" [] OTHER -> c

RECURSIVE toLowerCase(_)
toLowerCase(s) ==
    IF s = "" THEN ""
    ELSE toLowerChar(SubSeq(s, 1, 1)) \o toLowerCase(SubSeq(s, 2, Len(s)))

startsWith(s, t) == Len(t) <= Len(s) /\ SubSeq(s, 1, Len(t)) = t

endsWith(s, t) == Len(t) <= Len(s) /\ SubSeq(s, Len(s) - Len(t) + 1, Len(s)) = t

includes(s, t) ==
    \E i \in 0..(Len(s) - Len(t)) : SubSeq(s, i + 1, i + Len(t)) = t

\* s.indexOf(t): 0-based position of the first occurrence, -1 when there is none
indexOf(s, t) ==
    IF includes(s, t)
    THEN CHOOSE i \in 0..(Len(s) - Len(t)) :
            /\ SubSeq(s, i + 1, i + Len(t)) = t
            /\ \A j \in 0..(i - 1) : SubSeq(s, j + 1, j + Len(t)) # t
    ELSE -1

isSpace(c) == c = " "

RECURSIVE trimStart(_)
trimStart(s) ==
    IF s # "" /\ isSpace(SubSeq(s, 1, 1)) THEN trimStart(SubSeq(s, 2, Len(s))) ELSE s

RECURSIVE trimEnd(_)
trimEnd(s) ==
    IF s # "" /\ isSpace(SubSeq(s, Len(s), Len(s)))
    THEN trimEnd(SubSeq(s, 1, Len(s) - 1)) ELSE s

trim(s) == trimEnd(trimStart(s))

\* s.replace(/\s+/g, r): every run of white space becomes one r
RECURSIVE replaceSpaceRuns(_, _)
replaceSpaceRuns(s, r) ==
    IF s = "" THEN ""
    ELSE IF isSpace(SubSeq(s, 1, 1))
         THEN r \o replaceSpaceRuns(trimStart(s), r)
         ELSE SubSeq(s, 1, 1) \o replaceSpaceRuns(SubSeq(s, 2, Len(s)), r)

\* s.replace(/\./g, r)
RECURSIVE replaceDots(_, _)
replaceDots(s, r) ==
    IF s = "" THEN ""
    ELSE (IF SubSeq(s, 1, 1) = "." THEN r ELSE SubSeq(s, 1, 1))
            \o replaceDots(SubSeq(s, 2, Len(s)), r)

(***************************************************************************)
(* Array.prototype methods on sequences.                                   *)
(***************************************************************************)
\* the indices of the elements of seq that satisfy Test, in order (filter)
RECURSIVE FilterIdx(_, _, _)
FilterIdx(seq, Test(_), from) ==
    IF from > Len(seq) THEN <<>>
    ELSE (IF Test(seq[from]) THEN <<from>> ELSE <<>>) \o FilterIdx(seq, Test, from + 1)

\* arr.slice(0, n) for n >= 0
slice(seq, n) == SubSeq(seq, 1, IF n < Len(seq) THEN n ELSE Len(seq))

Range(seq) == {seq[i] : i \in 1..Len(seq)}

\* the sequences without repetition of at most n elements of pool
InjSeqs(pool, n) ==
    UNION {{s \in [1..k -> pool] : \A i, j \in 1..k : i # j => s[i] # s[j]} : k \in 0..n}

(***************************************************************************)
(* Record shapes (ApiItem, OnlineApiResult) and the persisted data the     *)
(* model runs on.                                                          *)
(***************************************************************************)
ApiItem(id, name, namespace, summary, type, level, htmlFile) ==
    [id |-> id, name |-> name, description |-> summary, summary |-> summary,
     namespace |-> namespace, normalizedNamespace |-> namespace, type |-> type,
     level |-> level, htmlFile |-> htmlFile, detailedInfo |-> <<>>]

ModelNs == "Tekla.Structures.Model"
DrawingNs == "Tekla.Structures.Drawing"
AnalysisNs == "Tekla.Structures.Analysis"

BeamClass == ApiItem("Beam Class", "Beam Class", ModelNs, "Represents a beam.", "class", 2, "beam.htm")
CompositeBeamClass ==
    ApiItem("AnalysisCompositeBeam Class", "AnalysisCompositeBeam Class", AnalysisNs,
            "A composite beam.", "class", 2, "")
ColumnModel == ApiItem("Column", "Column", ModelNs, "A column part.", "class", 2, "column.htm")
ColumnDrawing == ApiItem("Column", "Column", DrawingNs, "A column in a drawing.", "class", 3, "nofile.htm")
GridClass == ApiItem("Grid Class", "Grid Class", "N/A", "Copyright © Trimble", "class", 1, "grid.htm")
SteelBeamClass == ApiItem("Steel Beam Class", "Steel Beam Class", ModelNs, "", "class", 2, "")

ClassPool == {BeamClass, CompositeBeamClass, ColumnModel, ColumnDrawing, GridClass, SteelBeamClass}

BeamInsert == ApiItem("Beam.Insert Method", "Beam.Insert Method", ModelNs, "Inserts the beam.", "method", 3, "")
BeamDelete == ApiItem("Beam.Delete Method", "Beam.Delete Method", ModelNs, "", "method", 3, "")
ColumnInsert == ApiItem("Column.Insert Method", "Column.Insert Method", ModelNs, "", "method", 3, "")
BeamName == ApiItem("Beam.Name Property", "Beam.Name Property", ModelNs, "", "property", 3, "")
InsertEnum == ApiItem("Insert Enumeration", "Insert Enumeration", DrawingNs, "", "enum", 2, "")
ModelNamespace == ApiItem("Tekla.Structures.Model Namespace", "Tekla.Structures.Model Namespace", "", "", "namespace", 1, "")

\* the class names a caller asks for
ClassNames == {"Beam", "BEAM", "Column", "Composite", "Grid", "Zed"}

HtmlFiles == {"beam.htm", "column.htm", "grid.htm", "nofile.htm"}

(***************************************************************************)
(* OnlineApiFallback: class lookup.                                        *)
(***************************************************************************)
baseUrl == "https://developer.tekla.com/doc/tekla-structures/2025"

classNameToUrl(className) ==
    replaceSpaceRuns(replaceDots(toLowerCase(className), "-"), "-")

inferNamespace(name) ==
    IF includes(name, "Model") \/ includes(name, "Beam") \/ includes(name, "Column")
    THEN "Tekla.Structures.Model"
    ELSE IF includes(name, "Drawing") \/ includes(name, "View") \/ includes(name, "Dimension")
    THEN "Tekla.Structures.Drawing"
    ELSE IF includes(name, "Point") \/ includes(name, "Vector") \/ includes(name, "Geometry")
    THEN "Tekla.Structures.Geometry3d"
    ELSE IF includes(name, "Plugin")
    THEN "Tekla.Structures.Plugins"
    ELSE "Tekla.Structures"

simulateClassDetails(className) ==
    [title |-> className \o " Class",
     description |-> "The " \o className \o " class provides comprehensive functionality for structural modeling in Tekla Structures. This class includes methods for creating, modifying, and querying structural elements with full support for all Tekla features.",
     namespace |-> inferNamespace(className),
     type |-> "class",
     url |-> baseUrl \o "/" \o classNameToUrl(className)]

\* resolves to the simulated result, or to null from its catch when the lookup throws
getClassDetailsOnline(className) ==
    IF remoteUp THEN <<simulateClassDetails(className)>> ELSE <<>>

(***************************************************************************)
(* HtmlParser.  A page on disk is the document JSDOM builds from it:       *)
(* state is "none" (no such file), "empty" (0 bytes), "blank" (white space  *)
(* only) or "html"; the other fields are the text of the elements the      *)
(* selectors of the parser find (<<>>: no such element), and for a table   *)
(* section its rows, each with the text of its name cell and of its        *)
(* description cell.  qualified is the list of matches of the pattern      *)
(* Tekla.Structures.<word>.<word> in the text of the inheritance section.  *)
(***************************************************************************)
\* text.replace(/AddLanguageSpecificTextSet\([^)]+\)/g, '')
RECURSIVE removeScriptCalls(_)
removeScriptCalls(s) ==
    LET call == "AddLanguageSpecificTextSet("
        rest == SubSeq(s, Len(call) + 1, Len(s))
        close == indexOf(rest, ")")
    IN  IF s = "" THEN ""
        ELSE IF startsWith(s, call) /\ close >= 1
             THEN removeScriptCalls(SubSeq(rest, close + 2, Len(rest)))
             ELSE SubSeq(s, 1, 1) \o removeScriptCalls(SubSeq(s, 2, Len(s)))

\* text.replace(/\|[^"]*\"\);?/g, '')
RECURSIVE removeLanguageTails(_)
removeLanguageTails(s) ==
    LET rest == SubSeq(s, 2, Len(s))
        quote == indexOf(rest, "\"")
        after == SubSeq(rest, quote + 2, Len(rest))
    IN  IF s = "" THEN ""
        ELSE IF SubSeq(s, 1, 1) = "|" /\ quote >= 0 /\ startsWith(after, ")")
             THEN removeLanguageTails(
                    IF startsWith(after, ");") THEN SubSeq(after, 3, Len(after))
                    ELSE SubSeq(after, 2, Len(after)))
             ELSE SubSeq(s, 1, 1) \o removeLanguageTails(rest)

\* s.lastIndexOf(c), 0-based, -1 when there is none
lastIndexOf(s, c) ==
    IF includes(s, c)
    THEN CHOOSE i \in 0..(Len(s) - 1) :
            /\ SubSeq(s, i + 1, i + 1) = c
            /\ \A j \in (i + 1)..(Len(s) - 1) : SubSeq(s, j + 1, j + 1) # c
    ELSE -1

\* text.replace(/;[^;]*Object$/, '')
removeObjectTail(s) ==
    IF endsWith(s, "Object") /\ lastIndexOf(s, ";") >= 0
    THEN SubSeq(s, 1, lastIndexOf(s, ";"))
    ELSE s

\* text.replace(/<[^>]+>/g, '')
RECURSIVE removeTags(_)
removeTags(s) ==
    LET rest == SubSeq(s, 2, Len(s))
        close == indexOf(rest, ">")
    IN  IF s = "" THEN ""
        ELSE IF SubSeq(s, 1, 1) = "<" /\ close >= 1
             THEN removeTags(SubSeq(rest, close + 2, Len(rest)))
             ELSE SubSeq(s, 1, 1) \o removeTags(rest)

cleanText(text) ==
    trim(replaceSpaceRuns(removeTags(removeObjectTail(removeLanguageTails(removeScriptCalls(text)))), " "))

\* name.split('.').pop()
lastSegment(s) == SubSeq(s, lastIndexOf(s, ".") + 2, Len(s))

Row(name, text) == [name |-> name, text |-> text]

Page(state, h1, namespaceLink, summary, syntax, links, qualified, ctorRows, propRows, methRows, codeBlocks) ==
    [state |-> state, h1 |-> h1, namespaceLink |-> namespaceLink, summary |-> summary,
     syntax |-> syntax, links |-> links, qualified |-> qualified,
     constructors |-> ctorRows, properties |-> propRows, methods |-> methRows,
     examples |-> codeBlocks]

extractSyntax(document) ==
    IF document.syntax # <<>> /\ trim(document.syntax[1]) # ""
    THEN <<trim(document.syntax[1])>> ELSE <<>>

RECURSIVE hierarchyOfLinks(_)
hierarchyOfLinks(links) ==
    IF links = <<>> THEN <<>>
    ELSE LET text == trim(Head(links))
         IN  (IF text # "" /\ ~includes(text, "System.Object") THEN <<text>> ELSE <<>>)
                \o hierarchyOfLinks(Tail(links))

RECURSIVE addQualified(_, _)
addQualified(info, matches) ==
    IF matches = <<>> THEN info
    ELSE LET className == lastSegment(Head(matches))
         IN  addQualified(
                IF className # "" /\ className \notin Range(info.hierarchy)
                THEN [baseClasses |-> Append(info.baseClasses, className),
                      hierarchy |-> Append(info.hierarchy, className)]
                ELSE info,
                Tail(matches))

notRootObject(text) == text # "Object" /\ text # "ModelObject"

extractInheritance(document) ==
    LET hierarchy == hierarchyOfLinks(document.links)
        fromLinks == [baseClasses |-> SelectSeq(hierarchy, notRootObject),
                      hierarchy |-> hierarchy]
        info == addQualified(fromLinks, document.qualified)
    IN  IF Len(info.hierarchy) > 0 THEN <<info>> ELSE <<>>

RECURSIVE extractConstructors(_)
extractConstructors(rows) ==
    IF rows = <<>> THEN <<>>
    ELSE (IF Head(rows).name # <<>> /\ Head(rows).text # <<>>
          THEN <<[name |-> cleanText(Head(rows).name[1]),
                  description |-> cleanText(Head(rows).text[1])]>>
          ELSE <<>>) \o extractConstructors(Tail(rows))

\* text.match(/\(Inherited from ([^)]+)\)/)[1].trim()
extractInheritedFrom(text) ==
    LET marker == "(Inherited from "
        at == indexOf(text, marker)
        rest == SubSeq(text, at + Len(marker) + 1, Len(text))
        close == indexOf(rest, ")")
    IN  IF at >= 0 /\ close >= 1 /\ trim(SubSeq(rest, 1, close)) # ""
        THEN <<trim(SubSeq(rest, 1, close))>> ELSE <<>>

\* the member a row of the properties or methods table yields
memberOfRow(row) ==
    LET fullDescription == cleanText(row.text[1])
        isInherited == includes(fullDescription, "(Inherited from")
        cut == indexOf(fullDescription, "(Inherited from")
    IN  [name |-> cleanText(row.name[1]),
         description |-> trim(IF cut >= 0 THEN SubSeq(fullDescription, 1, cut)
                              ELSE fullDescription),
         inherited |-> isInherited,
         inheritedFrom |-> IF isInherited THEN extractInheritedFrom(fullDescription) ELSE <<>>]

RECURSIVE extractMethods(_)
extractMethods(rows) ==
    IF rows = <<>> THEN <<>>
    ELSE (IF Head(rows).name # <<>> /\ Head(rows).text # <<>>
          THEN <<memberOfRow(Head(rows))>> ELSE <<>>) \o extractMethods(Tail(rows))

RECURSIVE extractProperties(_)
extractProperties(rows) ==
    IF rows = <<>> THEN <<>>
    ELSE (IF Head(rows).name # <<>> /\ Head(rows).text # <<>>
          THEN <<memberOfRow(Head(rows)) @@ [type |-> "property"]>> ELSE <<>>)
            \o extractProperties(Tail(rows))

RECURSIVE extractExamples(_)
extractExamples(blocks) ==
    IF blocks = <<>> THEN <<>>
    ELSE (IF Len(trim(Head(blocks))) > 10 THEN <<trim(Head(blocks))>> ELSE <<>>)
            \o extractExamples(Tail(blocks))

\* the extraction sub-steps of parseClassDetails, in the order they run
Steps == <<"syntax", "inheritance", "constructors", "properties", "methods", "examples">>

\* whether the extraction sub-step throws on this document: a document may name, in its
\* field throws, the sub-steps whose DOM queries fail on it
throwsIn(document, step) == "throws" \in DOMAIN document /\ step \in document.throws

\* whether this sub-step or one that runs before it throws
throwsUpTo(document, step) ==
    \E i, j \in 1..Len(Steps) : i <= j /\ Steps[j] = step /\ throwsIn(document, Steps[i])

\* parseClassDetails with one try block around the six extractions: what follows the
\* failing sub-step is skipped
parseClassDetailsOneTry(document) ==
    IF document.state # "html" THEN <<>>
    ELSE LET className == IF document.h1 # <<>> /\ document.h1[1] # ""
                          THEN cleanText(document.h1[1]) ELSE "Unknown Class"
             namespace == IF document.namespaceLink # <<>>
                          THEN cleanText(IF document.namespaceLink[1] # ""
                                         THEN document.namespaceLink[1] ELSE "Unknown")
                          ELSE "Unknown"
             description == IF document.summary # <<>> /\ document.summary[1] # ""
                            THEN cleanText(document.summary[1])
                            ELSE "No description available"
             inheritance == IF throwsUpTo(document, "inheritance") THEN <<>>
                            ELSE extractInheritance(document)
         IN  <<[name |-> IF className # "" THEN className ELSE "Unknown Class",
                namespace |-> IF namespace # "" THEN namespace ELSE "Unknown",
                description |-> IF description # "" THEN description
                                ELSE "No description available",
                syntax |-> IF throwsUpTo(document, "syntax") THEN <<>> ELSE extractSyntax(document),
                inheritance |-> IF inheritance # <<>> THEN inheritance[1]
                                ELSE [baseClasses |-> <<>>, hierarchy |-> <<>>],
                constructors |-> IF throwsUpTo(document, "constructors") THEN <<>>
                                 ELSE extractConstructors(document.constructors),
                properties |-> IF throwsUpTo(document, "properties") THEN <<>>
                               ELSE extractProperties(document.properties),
                methods |-> IF throwsUpTo(document, "methods") THEN <<>>
                            ELSE extractMethods(document.methods),
                examples |-> IF throwsUpTo(document, "examples") THEN <<>>
                             ELSE extractExamples(document.examples)]>>

\* resolves to <<DetailedClassInfo>>, or to <<>> (null) when there is no page to parse;
\* each extraction sub-step has its own try block, whose catch assigns the empty default
parseClassDetails(document) ==
    IF document.state # "html" THEN <<>>
    ELSE LET className == IF document.h1 # <<>> /\ document.h1[1] # ""
                          THEN cleanText(document.h1[1]) ELSE "Unknown Class"
             namespace == IF document.namespaceLink # <<>>
                          THEN cleanText(IF document.namespaceLink[1] # ""
                                         THEN document.namespaceLink[1] ELSE "Unknown")
                          ELSE "Unknown"
             description == IF document.summary # <<>> /\ document.summary[1] # ""
                            THEN cleanText(document.summary[1])
                            ELSE "No description available"
             inheritance == IF throwsIn(document, "inheritance") THEN <<>>
                            ELSE extractInheritance(document)
         IN  <<[name |-> IF className # "" THEN className ELSE "Unknown Class",
                namespace |-> IF namespace # "" THEN namespace ELSE "Unknown",
                description |-> IF description # "" THEN description
                                ELSE "No description available",
                syntax |-> IF throwsIn(document, "syntax") THEN <<>> ELSE extractSyntax(document),
                inheritance |-> IF inheritance # <<>> THEN inheritance[1]
                                ELSE [baseClasses |-> <<>>, hierarchy |-> <<>>],
                constructors |-> IF throwsIn(document, "constructors") THEN <<>>
                                 ELSE extractConstructors(document.constructors),
                properties |-> IF throwsIn(document, "properties") THEN <<>>
                               ELSE extractProperties(document.properties),
                methods |-> IF throwsIn(document, "methods") THEN <<>>
                            ELSE extractMethods(document.methods),
                examples |-> IF throwsIn(document, "examples") THEN <<>>
                             ELSE extractExamples(document.examples)]>>

NoPage == Page("none", <<>>, <<>>, <<>>, <<>>, <<>>, <<>>, <<>>, <<>>, <<>>, <<>>)
EmptyPage == Page("empty", <<>>, <<>>, <<>>, <<>>, <<>>, <<>>, <<>>, <<>>, <<>>, <<>>)

BeamPage ==
    Page("html", <<" Beam  Class ">>, <<"Tekla.Structures.Model">>, <<"Represents a <b>beam</b>.">>,
         <<"public class Beam : Part">>,
         <<"System.Object", "ModelObject", "Part">>, <<"Tekla.Structures.Model.Beam">>,
         <<Row(<<"Beam()">>, <<"Creates a beam.">>)>>,
         <<Row(<<"Name">>, <<"Gets the name. (Inherited from Part)">>),
           Row(<<"Profile">>, <<"The profile.">>)>>,
         <<Row(<<"Insert">>, <<"Inserts the beam.">>),
           Row(<<"Delete">>, <<"Deletes it. (Inherited from ModelObject )">>)>>,
         <<"Beam b = new Beam();", "b;">>)

\* the same page after the documentation was regenerated
BeamPageRevised ==
    Page("html", <<"Beam Class">>, <<>>, <<>>, <<>>,
         <<"Part">>, <<>>,
         <<Row(<<"Beam()">>, <<"Creates a beam.">>), Row(<<"Beam(Point, Point)">>, <<"From two points.">>)>>,
         <<Row(<<"Profile">>, <<"The profile.">>)>>,
         <<Row(<<"Insert">>, <<"Inserts the beam.">>), Row(<<"Select">>, <<>>),
           Row(<<"Modify">>, <<"Modifies it.">>)>>,
         <<>>)

ColumnPage ==
    Page("html", <<"Column Class">>, <<"Tekla.Structures.Model">>, <<"A column.">>, <<>>,
         <<>>, <<>>, <<>>, <<>>, <<Row(<<"Insert">>, <<"Inserts the column.">>)>>, <<>>)

GridPage ==
    Page("html", <<"Grid Class">>, <<"Tekla.Structures.Model">>, <<"A grid.">>, <<"public class Grid">>,
         <<"System.Object", "ModelObject">>, <<"Tekla.Structures.Model.Grid">>,
         <<Row(<<"Grid()">>, <<"Creates a grid.">>)>>,
         <<Row(<<"Name">>, <<"The name.">>)>>,
         <<Row(<<"Insert">>, <<"Inserts the grid.">>)>>, <<>>)

PageVersions == {BeamPage, BeamPageRevised, NoPage, EmptyPage}

InitialPages ==
    [f \in HtmlFiles |->
        CASE f = "beam.htm" -> BeamPage
          [] f = "column.htm" -> ColumnPage
          [] f = "grid.htm" -> EmptyPage
          [] OTHER -> NoPage]

(***************************************************************************)
(* TeklaApiDocumentation.getClassDetails.                                  *)
(***************************************************************************)
\* pass 1: exact match
exactMatch(item, className) ==
    \/ toLowerCase(item.name) = toLowerCase(className) \o " class"
    \/ toLowerCase(item.name) = toLowerCase(className)
    \/ toLowerCase(item.id) = toLowerCase(className) \o " class"

\* pass 2: the search term as a whole word
wordBoundaryMatch(item, className) ==
    LET name == toLowerCase(item.name)
        id == toLowerCase(item.id)
        searchTerm == toLowerCase(className)
    IN  \/ name = searchTerm \o " class"
        \/ id = searchTerm \o " class"
        \/ startsWith(name, searchTerm \o " ")
        \/ endsWith(name, " " \o searchTerm)
        \/ includes(name, " " \o searchTerm \o " ")
        \/ includes(name, " " \o searchTerm \o "class")

\* pass 3: broad search
broadMatch(item, className) ==
    \/ includes(toLowerCase(item.name), toLowerCase(className))
    \/ includes(toLowerCase(item.id), toLowerCase(className))

\* findClassItems without the escalation: the broad pass decides alone
findClassItemsBroadOnly(className) ==
    LET isBroad(item) == broadMatch(item, className)
    IN  FilterIdx(classes, isBroad, 1)

\* classItems (as indices into this.classes) after the three passes
findClassItems(className) ==
    LET isExact(item) == exactMatch(item, className)
        isWord(item) == wordBoundaryMatch(item, className)
        isBroad(item) == broadMatch(item, className)
        exact == FilterIdx(classes, isExact, 1)
        word == FilterIdx(classes, isWord, 1)
        broad == FilterIdx(classes, isBroad, 1)
    IN  IF Len(exact) # 0 THEN exact
        ELSE IF Len(word) # 0 THEN word
        ELSE broad

\* classItems.find(item => item.namespace?.includes(ns)): an index, 0 when there is none
findNamespace(classItems, ns) ==
    LET hits == {k \in 1..Len(classItems) : includes(classes[classItems[k]].namespace, ns)}
    IN  IF hits = {} THEN 0
        ELSE classItems[CHOOSE k \in hits : \A h \in hits : k <= h]

\* selectClassItem without the namespace preference: always the first match
selectFirstClassItem(classItems) ==
    IF Len(classItems) >= 1 THEN classItems[1] ELSE 0

\* classItem (as an index into this.classes), 0 when it stays undefined
selectClassItem(classItems) ==
    LET modelMatch == findNamespace(classItems, "Tekla.Structures.Model")
        drawingMatch == findNamespace(classItems, "Tekla.Structures.Drawing")
    IN  IF Len(classItems) > 1
        THEN IF modelMatch # 0 /\ drawingMatch # 0 THEN modelMatch ELSE classItems[1]
        ELSE IF Len(classItems) = 1 THEN classItems[1]
        ELSE 0

hasPoorQuality(classItem) ==
    \/ classItem.namespace = ""
    \/ classItem.namespace = "N/A"
    \/ (classItem.summary # "" /\ includes(classItem.summary, "Copyright ©"))

\* the local members kept beside an online result
classMembers(classItem, className, includeMembers) ==
    LET isMember(item) ==
            /\ item.namespace = classItem.namespace
            /\ (item.type = "method" \/ item.type = "property")
            /\ includes(toLowerCase(item.name), toLowerCase(className))
    IN  IF includeMembers THEN SelectSeq(apiData, isMember) ELSE <<>>

\* the record returned when nothing matched locally
onlineOnlyResult(onlineResult) ==
    [id |-> onlineResult.title, name |-> onlineResult.title,
     description |-> onlineResult.description, summary |-> onlineResult.description,
     namespace |-> onlineResult.namespace, normalizedNamespace |-> onlineResult.namespace,
     type |-> onlineResult.type, level |-> 0, htmlFile |-> onlineResult.url]

\* the record returned for a poor-quality local record the fallback answered for
onlineWithMembers(onlineResult, classItem, className, includeMembers) ==
    [title |-> onlineResult.title, description |-> onlineResult.description,
     summary |-> onlineResult.description, namespace |-> onlineResult.namespace,
     type |-> onlineResult.type, level |-> classItem.level, htmlFile |-> onlineResult.url,
     members |-> classMembers(classItem, className, includeMembers)]

\* an attachment that also spreads the parsed fields over the record's own
attachDetailedInfoSpread(classItem, detailedInfo) ==
    [f \in (DOMAIN classItem) \cup (DOMAIN detailedInfo[1]) |->
        IF f = "detailedInfo" THEN detailedInfo
        ELSE IF f \in DOMAIN detailedInfo[1] THEN detailedInfo[1][f]
        ELSE classItem[f]]

\* classItem.detailedInfo = detailedInfo
\* an attachment that copies the new fields onto an existing detailedInfo object but
\* leaves its member lists in place
attachDetailedInfoOntoOld(classItem, detailedInfo) ==
    IF classItem.detailedInfo = <<>>
    THEN [classItem EXCEPT !.detailedInfo = detailedInfo]
    ELSE [classItem EXCEPT !.detailedInfo =
            <<[detailedInfo[1] EXCEPT !.methods = classItem.detailedInfo[1].methods,
                                      !.properties = classItem.detailedInfo[1].properties]>>]

\* classItem.detailedInfo = detailedInfo
attachDetailedInfo(classItem, detailedInfo) ==
    [classItem EXCEPT !.detailedInfo = detailedInfo]

pageOf(htmlFile) == IF htmlFile \in DOMAIN pages THEN pages[htmlFile] ELSE NoPage

\* remoteCalls counts the calls this operation made to the online fallback
NoLocals == [classItem |-> 0, onlineResult |-> <<>>, detailedInfo |-> <<>>, remoteCalls |-> 0]

NoRequest == [op |-> "none"]

\* lines 249-280: the deep-detail section, up to its await or to the return
DetailSection(p, classItem, includeMembers) ==
    IF includeMembers /\ classes[classItem].htmlFile # ""
    THEN /\ pc' = [pc EXCEPT ![p] = "parseClassDetails"]
         /\ local' = [local EXCEPT ![p] =
                [classItem |-> classItem, onlineResult |-> <<>>,
                 detailedInfo |-> parseClassDetails(pageOf(classes[classItem].htmlFile)),
                 remoteCalls |-> local[p].remoteCalls]]
         /\ UNCHANGED ret
    ELSE /\ pc' = [pc EXCEPT ![p] = "done"]
         /\ local' = [local EXCEPT ![p] = [NoLocals EXCEPT !.classItem = classItem,
                                                         !.remoteCalls = local[p].remoteCalls]]
         /\ ret' = [ret EXCEPT ![p] = <<classes[classItem]>>]

\* the call, up to its first await (or to its return when it awaits nothing)
GetClassDetails(p, className, includeMembers) ==
    /\ pc[p] = "idle"
    /\ req' = [req EXCEPT ![p] = [op |-> "getClassDetails", className |-> className,
                                  includeMembers |-> includeMembers]]
    /\ \E classItem \in {selectClassItem(findClassItems(className))} :
           IF classItem = 0
           THEN /\ pc' = [pc EXCEPT ![p] = "getClassDetailsOnline"]
                /\ local' = [local EXCEPT ![p] =
                        [NoLocals EXCEPT !.onlineResult = getClassDetailsOnline(className),
                                         !.remoteCalls = 1]]
                /\ UNCHANGED ret
           ELSE IF hasPoorQuality(classes[classItem])
           THEN /\ pc' = [pc EXCEPT ![p] = "getClassDetailsOnlinePoor"]
                /\ local' = [local EXCEPT ![p] =
                        [classItem |-> classItem,
                         onlineResult |-> getClassDetailsOnline(className),
                         detailedInfo |-> <<>>, remoteCalls |-> 1]]
                /\ UNCHANGED ret
           ELSE DetailSection(p, classItem, includeMembers)
    /\ UNCHANGED <<fixed, apiData, classes, methods, searchIndex, cache, pages, edits>>

\* resumes after the await of line 209
ResumeNotFound(p) ==
    /\ pc[p] = "getClassDetailsOnline"
    /\ pc' = [pc EXCEPT ![p] = "done"]
    /\ ret' = [ret EXCEPT ![p] =
            IF local[p].onlineResult # <<>>
            THEN <<onlineOnlyResult(local[p].onlineResult[1])>> ELSE <<>>]
    /\ UNCHANGED <<fixed, apiData, classes, methods, searchIndex, cache, pages, edits, req, local>>

\* resumes after the await of line 231
ResumePoorQuality(p) ==
    /\ pc[p] = "getClassDetailsOnlinePoor"
    /\ IF local[p].onlineResult # <<>>
       THEN /\ pc' = [pc EXCEPT ![p] = "done"]
            /\ ret' = [ret EXCEPT ![p] =
                    <<onlineWithMembers(local[p].onlineResult[1], classes[local[p].classItem],
                                        req[p].className, req[p].includeMembers)>>]
            /\ UNCHANGED local
       ELSE DetailSection(p, local[p].classItem, req[p].includeMembers)
    /\ UNCHANGED <<fixed, apiData, classes, methods, searchIndex, cache, pages, edits, req>>

\* resumes after the await of line 253
ResumeParse(p) ==
    /\ pc[p] = "parseClassDetails"
    /\ classes' = IF local[p].detailedInfo # <<>>
                  THEN [classes EXCEPT ![local[p].classItem] =
                            attachDetailedInfo(@, local[p].detailedInfo)]
                  ELSE classes
    /\ pc' = [pc EXCEPT ![p] = "done"]
    /\ ret' = [ret EXCEPT ![p] = <<classes'[local[p].classItem]>>]
    /\ UNCHANGED <<fixed, apiData, methods, searchIndex, cache, pages, edits, req, local>>

\* the caller takes the resolved value; the slot is free for the next request
Return(p) ==
    /\ pc[p] \in {"done", "rejected"}
    /\ pc' = [pc EXCEPT ![p] = "idle"]
    /\ req' = [req EXCEPT ![p] = NoRequest]
    /\ local' = [local EXCEPT ![p] = NoLocals]
    /\ ret' = [ret EXCEPT ![p] = <<>>]
    /\ UNCHANGED <<fixed, apiData, classes, methods, searchIndex, cache, pages, edits>>

\* the documentation is regenerated: a page on disk is replaced
ChangePage(htmlFile, page) ==
    /\ edits < MaxEdits
    /\ pages[htmlFile] # page
    /\ pages' = [pages EXCEPT ![htmlFile] = page]
    /\ edits' = edits + 1
    /\ UNCHANGED <<fixed, apiData, classes, methods, searchIndex, cache, pc, req, local, ret>>

(***************************************************************************)
(* TeklaApiDocumentation.getMethodDetails and browseNamespace.             *)
(***************************************************************************)
\* arr.find(Test): the index of the first element that satisfies Test, 0 when none does
FindIdx(seq, Test(_)) ==
    LET hits == {i \in 1..Len(seq) : Test(seq[i])}
    IN  IF hits = {} THEN 0 ELSE CHOOSE i \in hits : \A h \in hits : i <= h

\* methodMatch without the class name test
methodMatchNameOnly(item, methodName, className) ==
    includes(toLowerCase(item.name), toLowerCase(methodName))

\* className is <<>> (not given) or <<a string>>; an empty string is falsy too
methodMatch(item, methodName, className) ==
    LET nameMatch == includes(toLowerCase(item.name), toLowerCase(methodName))
        classMatch == \/ className = <<>>
                      \/ className[1] = ""
                      \/ includes(toLowerCase(item.name), toLowerCase(className[1]))
    IN  nameMatch /\ classMatch

\* methodItem || null
getMethodDetails(methodName, className) ==
    LET inPartition(item) == methodMatch(item, methodName, className)
        inAll(item) == item.type = "method" /\ methodMatch(item, methodName, className)
        first == FindIdx(methods, inPartition)
        fallback == FindIdx(apiData, inAll)
    IN  IF first # 0 THEN <<methods[first]>>
        ELSE IF fallback # 0 THEN <<apiData[fallback]>>
        ELSE <<>>

GetMethodDetails(p, methodName, className) ==
    /\ pc[p] = "idle"
    /\ req' = [req EXCEPT ![p] = [op |-> "getMethodDetails", methodName |-> methodName,
                                  className |-> className]]
    /\ pc' = [pc EXCEPT ![p] = "done"]
    /\ ret' = [ret EXCEPT ![p] = getMethodDetails(methodName, className)]
    /\ UNCHANGED <<fixed, apiData, classes, methods, searchIndex, cache, pages, edits, local>>

isTopLevel(item) == item.type \in {"class", "interface", "enum", "delegate"}

\* browseNamespace that always keeps the top-level kinds only
browseNamespaceTopLevelOnly(namespace, includeMembers) ==
    LET inNamespace(item) ==
            /\ item.namespace # ""
            /\ startsWith(toLowerCase(item.namespace), toLowerCase(namespace))
    IN  SelectSeq(SelectSeq(apiData, inNamespace), isTopLevel)

browseNamespace(namespace, includeMembers) ==
    LET inNamespace(item) ==
            /\ item.namespace # ""
            /\ startsWith(toLowerCase(item.namespace), toLowerCase(namespace))
        namespaceItems == SelectSeq(apiData, inNamespace)
    IN  IF ~includeMembers THEN SelectSeq(namespaceItems, isTopLevel)
        ELSE namespaceItems

BrowseNamespace(p, namespace, includeMembers) ==
    /\ pc[p] = "idle"
    /\ req' = [req EXCEPT ![p] = [op |-> "browseNamespace", namespace |-> namespace,
                                  includeMembers |-> includeMembers]]
    /\ pc' = [pc EXCEPT ![p] = "done"]
    /\ ret' = [ret EXCEPT ![p] = browseNamespace(namespace, includeMembers)]
    /\ UNCHANGED <<fixed, apiData, classes, methods, searchIndex, cache, pages, edits, local>>

(***************************************************************************)
(* The engine serving one client, one request at a time, over any store.   *)
(***************************************************************************)
CanonicalData == <<ModelNamespace, BeamClass, BeamInsert, BeamName, ColumnDrawing, InsertEnum>>

ItemPool == {ModelNamespace, BeamClass, BeamInsert, ColumnInsert, BeamName, InsertEnum}

isClass(item) == item.type = "class"
isMethod(item) == item.type = "method"
isProperty(item) == item.type = "property"
isNamespace(item) == item.type = "namespace"
isEnum(item) == item.type = "enum"
isInterface(item) == item.type = "interface"

\* the other partitions as the parser writes them for the combined collection; no
\* examples file; the online reference answers
InitFixed ==
    /\ properties = SelectSeq(apiData, isProperty)
    /\ namespaces = SelectSeq(apiData, isNamespace)
    /\ enums = SelectSeq(apiData, isEnum)
    /\ interfaces = SelectSeq(apiData, isInterface)
    /\ examples = <<>>
    /\ remoteUp = TRUE

Reverse(seq) == [i \in 1..Len(seq) |-> seq[Len(seq) + 1 - i]]

\* the method names, class names and namespace prefixes a caller asks for
MethodNames == {"Insert", "INSERT", "Delete"}
MethodClassNames == {<<>>, <<"">>, <<"Beam">>, <<"Column">>}
NamespacePrefixes == {"Tekla.Structures.Model", "tekla.structures", "Tekla.Structures.Drawing"}

InitRequests ==
    /\ pc = [p \in Procs |-> "idle"]
    /\ req = [p \in Procs |-> NoRequest]
    /\ local = [p \in Procs |-> NoLocals]
    /\ ret = [p \in Procs |-> <<>>]

\* the persisted files: any class partition beside the canonical combined collection,
\* or any combined collection with the partitions the parser writes for it (the method
\* partition possibly missing, or in another order)
Init ==
    /\ \/ /\ classes \in InjSeqs(ClassPool, MaxClasses)
          /\ apiData = CanonicalData
          /\ methods = SelectSeq(apiData, isMethod)
       \/ /\ apiData \in InjSeqs(ItemPool, MaxItems)
          /\ classes = SelectSeq(apiData, isClass)
          /\ methods \in {SelectSeq(apiData, isMethod), Reverse(SelectSeq(apiData, isMethod)), <<>>}
    /\ searchIndex = <<>>
    /\ cache = <<>>
    /\ pages = InitialPages
    /\ edits = 0
    /\ InitFixed
    /\ InitRequests

Next ==
    \/ \E className \in ClassNames, includeMembers \in BOOLEAN :
            GetClassDetails(1, className, includeMembers)
    \/ ResumeNotFound(1)
    \/ ResumePoorQuality(1)
    \/ ResumeParse(1)
    \/ \E methodName \in MethodNames, className \in MethodClassNames :
            GetMethodDetails(1, methodName, className)
    \/ \E namespace \in NamespacePrefixes, includeMembers \in BOOLEAN :
            BrowseNamespace(1, namespace, includeMembers)
    \/ Return(1)

Spec == Init /\ [][Next]_vars

(***************************************************************************)
(* Properties of the resolution operations.                                *)
(***************************************************************************)
Min(S) == CHOOSE i \in S : \A j \in S : i <= j

\* the n-th smallest element of a set of numbers
Nth(S, n) == CHOOSE i \in S : Cardinality({k \in S : k < i}) = n - 1

ClassIdx(Test(_, _), className) == {i \in 1..Len(classes) : Test(classes[i], className)}

\* C1: getClassDetails selects its record among the candidates of the earliest pass
\* (exact, word boundary, broad substring) that has any, and selects nothing only when
\* all three are empty; asked for "Beam" it selects the record named "Beam Class"
\* whenever the store holds one, wherever "AnalysisCompositeBeam Class" stands.
C1_EarliestPass ==
    \A p \in Procs :
        req[p].op = "getClassDetails" =>
            LET className == req[p].className
                selected == local[p].classItem
                exact == ClassIdx(exactMatch, className)
                word == ClassIdx(wordBoundaryMatch, className)
                broad == ClassIdx(broadMatch, className)
            IN  /\ exact # {} => selected \in exact
                /\ (exact = {} /\ word # {}) => selected \in word
                /\ (exact = {} /\ word = {} /\ broad # {}) => selected \in broad
                /\ (exact = {} /\ word = {} /\ broad = {}) => selected = 0
                /\ (className = "Beam" /\ \E i \in 1..Len(classes) : classes[i].name = "Beam Class")
                        => (selected # 0 /\ classes[selected].name = "Beam Class")

\* C1 witness: "Beam" was asked for with "AnalysisCompositeBeam Class" stored ahead of
\* "Beam Class", and the call returned the latter.
C1_Witness ==
    /\ pc[1] = "done"
    /\ req[1].op = "getClassDetails"
    /\ req[1].className = "Beam"
    /\ Len(classes) >= 2
    /\ classes[1].name = "AnalysisCompositeBeam Class"
    /\ classes[2].name = "Beam Class"
    /\ local[1].classItem = 2
    /\ ret[1] = <<classes[2]>>

\* C2: with two records named "Column" stored, one in Tekla.Structures.Model and one in
\* Tekla.Structures.Drawing, getClassDetails("Column") selects and returns the
\* Tekla.Structures.Model record, in either store order.
C2_ModelPreferred ==
    \A p \in Procs :
        (/\ req[p].op = "getClassDetails"
         /\ req[p].className = "Column"
         /\ \E i, j \in 1..Len(classes) :
                /\ classes[i].name = "Column" /\ classes[i].namespace = ModelNs
                /\ classes[j].name = "Column" /\ classes[j].namespace = DrawingNs)
        => /\ local[p].classItem # 0
           /\ classes[local[p].classItem].name = "Column"
           /\ classes[local[p].classItem].namespace = ModelNs
           /\ pc[p] = "done" => ret[p] = <<classes[local[p].classItem]>>

\* C2 witness: the drawing record is stored first and the model record was returned.
C2_Witness ==
    /\ pc[1] = "done"
    /\ req[1].op = "getClassDetails"
    /\ req[1].className = "Column"
    /\ Len(classes) >= 2
    /\ classes[1].name = "Column" /\ classes[1].namespace = DrawingNs
    /\ classes[2].name = "Column" /\ classes[2].namespace = ModelNs
    /\ ret[1] = <<classes[2]>>

\* C9: getMethodDetails returns the first record of the methods partition whose name
\* contains methodName and, when a className is given, className (case-insensitive);
\* failing that the first such record of kind "method" of the combined collection;
\* failing that null.  The record returned never lacks a given className: with only
\* "Beam.Insert Method" stored, ("Insert", "Beam") returns it and ("Insert", "Column")
\* returns null.
C9_MethodLookup ==
    \A p \in Procs :
        (req[p].op = "getMethodDetails" /\ pc[p] = "done") =>
            LET methodName == toLowerCase(req[p].methodName)
                given == req[p].className # <<>> /\ req[p].className[1] # ""
                wanted(item) ==
                    /\ includes(toLowerCase(item.name), methodName)
                    /\ given => includes(toLowerCase(item.name), toLowerCase(req[p].className[1]))
                inPartition == {i \in 1..Len(methods) : wanted(methods[i])}
                inAll == {i \in 1..Len(apiData) : apiData[i].type = "method" /\ wanted(apiData[i])}
            IN  /\ inPartition # {} => ret[p] = <<methods[Min(inPartition)]>>
                /\ (inPartition = {} /\ inAll # {}) => ret[p] = <<apiData[Min(inAll)]>>
                /\ (inPartition = {} /\ inAll = {}) => ret[p] = <<>>
                /\ (ret[p] # <<>> /\ given)
                        => includes(toLowerCase(ret[p][1].name), toLowerCase(req[p].className[1]))
                /\ (/\ methods = <<BeamInsert>>
                    /\ \A i \in 1..Len(apiData) : apiData[i].type = "method" => apiData[i] = BeamInsert
                    /\ req[p].methodName = "Insert")
                        => /\ req[p].className = <<"Beam">> => ret[p] = <<BeamInsert>>
                           /\ req[p].className = <<"Column">> => ret[p] = <<>>

\* C9 witness: with only "Beam.Insert Method" stored, ("Insert", "Column") returned null.
C9_Witness ==
    /\ pc[1] = "done"
    /\ req[1].op = "getMethodDetails"
    /\ req[1].methodName = "Insert"
    /\ req[1].className = <<"Column">>
    /\ methods = <<BeamInsert>>
    /\ ret[1] = <<>>

MaxLimit == 2
MaxRanked == 2
MaxCache == 1
MaxLocal == 3

digit(n) == CASE n = 0 -> "0" [] n = 1 -> "1" [] n = 2 -> "2" [] n = 3 -> "3" [] n = 4 -> "4"
              [] n = 5 -> "5" [] n = 6 -> "6" [] n = 7 -> "7" [] n = 8 -> "8" [] n = 9 -> "9"

\* `${n}` for a number n >= 0
RECURSIVE numberToString(_)
numberToString(n) ==
    IF n < 10 THEN digit(n) ELSE numberToString(n \div 10) \o digit(n % 10)

\* a field that is present and truthy (neither undefined nor the empty string)
truthy(r, field) == field \in DOMAIN r /\ r[field] # ""

\* a key that leaves the kind filter out
cacheKeyWithoutType(query, type, limit) == query \o "-" \o numberToString(limit)

cacheKey(query, type, limit) == query \o "-" \o type \o "-" \o numberToString(limit)

onlineNamespaces ==
    <<"Tekla.Structures.Model", "Tekla.Structures.Drawing",
      "Tekla.Structures.Geometry3d", "Tekla.Structures.Plugins">>

simulatedCount == 5

simulateOnlineResults(query, type, limit) ==
    [n \in 1..(IF limit < simulatedCount THEN limit ELSE simulatedCount) |->
        [title |-> query \o (IF n - 1 > 0 THEN " " \o numberToString(n) ELSE "") \o " Class",
         description |-> "Comprehensive documentation for " \o query
                         \o " from the online Tekla API reference. This includes detailed information about properties, methods, and usage examples.",
         namespace |-> onlineNamespaces[((n - 1) % Len(onlineNamespaces)) + 1],
         type |-> IF type # "" THEN type ELSE "class",
         url |-> baseUrl \o "/" \o toLowerCase(query) \o "-class-" \o numberToString(n)]]

\* a searchOnline that answers a lookup that threw with an entry describing the error
searchOnlineErrorEntry(query, type, limit) ==
    IF cacheKey(query, type, limit) \in DOMAIN cache
    THEN cache[cacheKey(query, type, limit)]
    ELSE IF remoteUp THEN simulateOnlineResults(query, type, limit)
    ELSE <<[title |-> "Online API fallback error", description |-> "", namespace |-> "",
            type |-> "other", url |-> ""]>>

\* what searchOnline returns: the cached list on a hit, a fresh one otherwise, [] from
\* its catch when the lookup throws
searchOnline(query, type, limit) ==
    IF cacheKey(query, type, limit) \in DOMAIN cache
    THEN cache[cacheKey(query, type, limit)]
    ELSE IF remoteUp THEN simulateOnlineResults(query, type, limit)
    ELSE <<>>

\* the cache searchOnline leaves behind: only a lookup that succeeded is stored
cacheAfterSearchOnline(query, type, limit) ==
    IF cacheKey(query, type, limit) \in DOMAIN cache \/ ~remoteUp
    THEN cache
    ELSE (cacheKey(query, type, limit) :> simulateOnlineResults(query, type, limit)) @@ cache

\* the lookups of the online reference one searchOnline call makes: none on a cache hit
lookupsOfSearchOnline(query, type, limit) ==
    IF cacheKey(query, type, limit) \in DOMAIN cache THEN 0 ELSE 1

\* shouldUseFallback firing at one half already
shouldUseFallbackFromHalf(localResults, query) ==
    LET poor(result) ==
            \/ ~truthy(result, "namespace")
            \/ result.namespace = "N/A"
            \/ truthy(result, "summary") /\ includes(result.summary, "Copyright ©")
            \/ truthy(result, "description") /\ includes(result.description, "Copyright ©")
        poorQualityCount == Len(SelectSeq(localResults, poor))
    IN  Len(localResults) = 0 \/ 2 * poorQualityCount >= Len(localResults)

\* poorQualityCount / length > 0.5 is 2 * poorQualityCount > length
shouldUseFallback(localResults, query) ==
    \/ Len(localResults) = 0
    \/ LET poor(result) ==
               \/ ~truthy(result, "namespace")
               \/ result.namespace = "N/A"
               \/ truthy(result, "summary") /\ includes(result.summary, "Copyright ©")
               \/ truthy(result, "description") /\ includes(result.description, "Copyright ©")
           poorQualityCount == Len(SelectSeq(localResults, poor))
       IN  2 * poorQualityCount > Len(localResults)

\* convertOnlineResults without the name field
convertOnlineResultsNoName(onlineResults) ==
    [n \in 1..Len(onlineResults) |->
        [id |-> onlineResults[n].title, title |-> onlineResults[n].title,
         type |-> onlineResults[n].type, namespace |-> onlineResults[n].namespace,
         normalizedNamespace |-> onlineResults[n].namespace,
         summary |-> onlineResults[n].description,
         description |-> onlineResults[n].description,
         htmlFile |-> onlineResults[n].url]]

convertOnlineResults(onlineResults) ==
    [n \in 1..Len(onlineResults) |->
        [id |-> onlineResults[n].title, title |-> onlineResults[n].title,
         name |-> onlineResults[n].title,
         type |-> onlineResults[n].type, namespace |-> onlineResults[n].namespace,
         normalizedNamespace |-> onlineResults[n].namespace,
         summary |-> onlineResults[n].description,
         description |-> onlineResults[n].description,
         htmlFile |-> onlineResults[n].url]]

\* an entry of search-index.json (SearchResult)
SearchEntry(id, title, type, namespace, summary, htmlFile) ==
    [id |-> id, title |-> title, name |-> title, type |-> type, namespace |-> namespace,
     summary |-> summary, description |-> summary, htmlFile |-> htmlFile]

SearchData ==
    <<SearchEntry("Tekla.Structures.Model.Beam", "Beam Class", "class", ModelNs,
                  "Represents a beam.", "beam.htm"),
      SearchEntry("beam-old", "beam class", "class", "N/A", "Old beam page.", "old.htm"),
      SearchEntry("Tekla.Structures.Model.Beam.Insert", "Beam.Insert Method", "method",
                  ModelNs, "Copyright © Trimble", "insert.htm")>>

\* result => ({...item, normalizedNamespace: fullItem?.normalizedNamespace || item.namespace || ''})
withNormalizedNamespace(item) ==
    LET sameItem(apiItem) == apiItem.id = item.id \/ apiItem.name = item.name
        fullItem == FindIdx(apiData, sameItem)
    IN  [normalizedNamespace |->
            IF fullItem # 0 /\ truthy(apiData[fullItem], "normalizedNamespace")
            THEN apiData[fullItem].normalizedNamespace
            ELSE item.namespace] @@ item

\* localResults cut to limit before the kind filter
localResultsCutFirst(ranked, type, limit) ==
    LET mapped == [n \in 1..Len(ranked) |-> withNormalizedNamespace(ranked[n])]
        ofType(item) == item.type = type
        cut == slice(mapped, limit)
    IN  IF type # "all" THEN SelectSeq(cut, ofType) ELSE cut

\* localResults of search, from the ranked items of the index
localResultsOf(ranked, type, limit) ==
    LET mapped == [n \in 1..Len(ranked) |-> withNormalizedNamespace(ranked[n])]
        ofType(item) == item.type = type
        filteredResults == IF type # "all" THEN SelectSeq(mapped, ofType) ELSE mapped
    IN  slice(filteredResults, limit)

\* the merge loop comparing titles as they are written
RECURSIVE combineResultsExactCase(_, _, _)
combineResultsExactCase(combinedResults, converted, limit) ==
    IF converted = <<>> THEN combinedResults
    ELSE LET existingTitles == {combinedResults[n].title : n \in 1..Len(combinedResults)}
             onlineResult == Head(converted)
         IN  combineResultsExactCase(
                 IF onlineResult.title \notin existingTitles /\ Len(combinedResults) < limit
                 THEN Append(combinedResults, onlineResult) ELSE combinedResults,
                 Tail(converted), limit)

\* the merge loop: existingTitles holds the lower-cased title of everything in
\* combinedResults (the local results and what was pushed so far)
RECURSIVE combineResults(_, _, _)
combineResults(combinedResults, converted, limit) ==
    IF converted = <<>> THEN combinedResults
    ELSE LET existingTitles ==
                 {toLowerCase(combinedResults[n].title) : n \in 1..Len(combinedResults)}
             onlineResult == Head(converted)
         IN  combineResults(
                 IF /\ toLowerCase(onlineResult.title) \notin existingTitles
                    /\ Len(combinedResults) < limit
                 THEN Append(combinedResults, onlineResult) ELSE combinedResults,
                 Tail(converted), limit)

SearchQueries == {"Beam", "Grid"}
SearchTypes == {"all", "class", "method"}

\* search(query, type, limit).  ranked is what searchIndex.search(query) answers (some
\* items of the index, best first), fault whether that call throws.  searchOnline has no
\* await of its own, so the cache is read and written as part of the call.
Search(p, query, type, limit, ranked, fault) ==
    /\ pc[p] = "idle"
    /\ req' = [req EXCEPT ![p] = [op |-> "search", query |-> query, type |-> type,
                                  limit |-> limit]]
    /\ pc' = [pc EXCEPT ![p] = "done"]
    /\ IF searchIndex = <<>> \/ fault
       THEN \E onlineResults \in {searchOnline(query, type, limit)} :
            /\ local' = [local EXCEPT ![p] =
                            [answeredBy |-> IF searchIndex = <<>> THEN "noIndex" ELSE "catch",
                             ranked |-> <<>>, localResults |-> <<>>,
                             onlineResults |-> onlineResults, remoteCalls |-> 1,
                             remoteLookups |-> lookupsOfSearchOnline(query, type, limit)]]
            /\ ret' = [ret EXCEPT ![p] = convertOnlineResults(onlineResults)]
            /\ cache' = cacheAfterSearchOnline(query, type, limit)
       ELSE \E localResults \in {localResultsOf(ranked, type, limit)} :
            IF shouldUseFallback(localResults, query)
            THEN \E onlineResults \in {searchOnline(query, type, limit)} :
                 /\ local' = [local EXCEPT ![p] = [answeredBy |-> "merge", ranked |-> ranked,
                                 localResults |-> localResults,
                                 onlineResults |-> onlineResults, remoteCalls |-> 1,
                                 remoteLookups |-> lookupsOfSearchOnline(query, type, limit)]]
                 /\ ret' = [ret EXCEPT ![p] =
                               combineResults(localResults,
                                              convertOnlineResults(onlineResults), limit)]
                 /\ cache' = cacheAfterSearchOnline(query, type, limit)
            ELSE /\ local' = [local EXCEPT ![p] = [answeredBy |-> "index", ranked |-> ranked,
                                 localResults |-> localResults, onlineResults |-> <<>>,
                                 remoteCalls |-> 0, remoteLookups |-> 0]]
                 /\ ret' = [ret EXCEPT ![p] = localResults]
                 /\ cache' = cache
    /\ Cardinality(DOMAIN cache') <= MaxCache
    /\ UNCHANGED <<fixed, apiData, classes, methods, searchIndex, pages, edits>>

\* the store as loaded: search-index.json missing, empty, or holding SearchData
InitSearch ==
    /\ apiData = CanonicalData
    /\ classes = SelectSeq(apiData, isClass)
    /\ methods = SelectSeq(apiData, isMethod)
    /\ searchIndex \in {<<>>, <<SearchData>>, << <<>> >>}
    /\ cache = <<>>
    /\ pages = InitialPages
    /\ edits = 0
    /\ InitFixed
    /\ InitRequests

NextSearch ==
    \/ \E query \in SearchQueries, type \in SearchTypes, limit \in 0..MaxLimit :
         \/ \E ranked \in (IF searchIndex = <<>> THEN {<<>>}
                            ELSE InjSeqs(Range(searchIndex[1]), MaxRanked)) :
                Search(1, query, type, limit, ranked, FALSE)
         \/ searchIndex # <<>> /\ Search(1, query, type, limit, <<>>, TRUE)
    \/ Return(1)

SpecSearch == InitSearch /\ [][NextSearch]_vars

\* C3: for limit >= 0, the local results of search are the first `limit` entries of the
\* ranked list once the entries of another kind are removed (none for "all"), in ranking
\* order; a search answered by the index returns exactly these, never more than `limit`.
C3_FilterThenTruncate ==
    \A p \in Procs :
        (req[p].op = "search" /\ pc[p] = "done" /\ local[p].answeredBy \in {"index", "merge"}) =>
            LET ranked == local[p].ranked
                keep == {i \in 1..Len(ranked) :
                            req[p].type = "all" \/ ranked[i].type = req[p].type}
                found == local[p].localResults
            IN  /\ Len(found) = (IF Cardinality(keep) < req[p].limit
                                 THEN Cardinality(keep) ELSE req[p].limit)
                /\ \A n \in 1..Len(found) :
                        \A field \in DOMAIN ranked[Nth(keep, n)] :
                            found[n][field] = ranked[Nth(keep, n)][field]
                /\ local[p].answeredBy = "index"
                        => (ret[p] = found /\ Len(ret[p]) <= req[p].limit)

\* C3 witness: a search for classes with limit 1 whose ranked list starts with a method
\* returned the class ranked second.
C3_Witness ==
    /\ pc[1] = "done"
    /\ req[1].op = "search"
    /\ local[1].answeredBy = "index"
    /\ req[1].type = "class" /\ req[1].limit = 1
    /\ Len(local[1].ranked) = 2
    /\ local[1].ranked[1].type = "method"
    /\ Len(ret[1]) = 1 /\ ret[1][1].title = "Beam Class"

\* C4: a merged answer starts with the local results in their order, each appended
\* fallback result has a title that differs, ignoring case, from every title before it
\* in the list, and the list is never longer than `limit`.
C4_MergeDedup ==
    \A p \in Procs :
        (req[p].op = "search" /\ pc[p] = "done" /\ local[p].answeredBy = "merge") =>
            LET found == local[p].localResults
                adapted == {[title |-> r.title, url |-> r.url] :
                                r \in Range(local[p].onlineResults)}
            IN  /\ Len(ret[p]) <= req[p].limit
                /\ Len(ret[p]) >= Len(found)
                /\ SubSeq(ret[p], 1, Len(found)) = found
                /\ \A n \in (Len(found) + 1)..Len(ret[p]) :
                        /\ [title |-> ret[p][n].title, url |-> ret[p][n].htmlFile] \in adapted
                        /\ \A m \in 1..(n - 1) :
                                toLowerCase(ret[p][m].title) # toLowerCase(ret[p][n].title)

\* C4 witness: the local result "beam class" was judged insufficient; the fallback's
\* "Beam Class" was dropped as a duplicate and "Beam 2 Class" appended.
C4_Witness ==
    /\ pc[1] = "done"
    /\ req[1].op = "search"
    /\ local[1].answeredBy = "merge"
    /\ req[1].query = "Beam" /\ req[1].limit = 2
    /\ Len(local[1].onlineResults) = 2
    /\ local[1].onlineResults[1].title = "Beam Class"
    /\ Len(ret[1]) = 2
    /\ ret[1][1].title = "beam class"
    /\ ret[1][2].title = "Beam 2 Class"

ResultShapes ==
    {[namespace |-> "N/A"],
     [namespace |-> ModelNs],
     [namespace |-> "", summary |-> "A summary."],
     [summary |-> "A summary without a namespace."],
     [namespace |-> ModelNs, summary |-> "Copyright © Trimble"],
     [namespace |-> DrawingNs, summary |-> "A view.", description |-> "Text. Copyright © 2025"]}

ResultLists == UNION {[1..k -> ResultShapes] : k \in 0..MaxLocal}

FallbackQueries == {"X", "Beam"}

ShouldUseFallback(p) ==
    /\ pc[p] = "idle"
    /\ req[p].op = "shouldUseFallback"
    /\ ret' = [ret EXCEPT ![p] = <<shouldUseFallback(req[p].localResults, req[p].query)>>]
    /\ pc' = [pc EXCEPT ![p] = "done"]
    /\ UNCHANGED <<fixed, apiData, classes, methods, searchIndex, cache, pages, edits, req, local>>

InitFallback ==
    /\ apiData = CanonicalData
    /\ classes = SelectSeq(apiData, isClass)
    /\ methods = SelectSeq(apiData, isMethod)
    /\ searchIndex = <<SearchData>>
    /\ cache = <<>>
    /\ pages = InitialPages
    /\ edits = 0
    /\ InitFixed
    /\ pc = [p \in Procs |-> "idle"]
    /\ \E localResults \in ResultLists, query \in FallbackQueries :
            req = [p \in Procs |-> IF p = 1
                                   THEN [op |-> "shouldUseFallback",
                                         localResults |-> localResults, query |-> query]
                                   ELSE NoRequest]
    /\ local = [p \in Procs |-> NoLocals]
    /\ ret = [p \in Procs |-> <<>>]

NextFallback == ShouldUseFallback(1)

SpecFallback == InitFallback /\ [][NextFallback]_vars

DetailData == <<GridClass, BeamClass, BeamInsert, BeamName>>

DetailClassNames == {"Beam", "Grid", "Zed"}

DetailPages ==
    {InitialPages,
     [InitialPages EXCEPT !["grid.htm"] = GridPage],
     [InitialPages EXCEPT !["grid.htm"] = GridPage, !["beam.htm"] = BeamPageRevised]}

InitDetail ==
    /\ apiData = DetailData
    /\ classes = SelectSeq(apiData, isClass)
    /\ methods = SelectSeq(apiData, isMethod)
    /\ searchIndex = <<>>
    /\ cache = <<>>
    /\ pages \in DetailPages
    /\ edits = 0
    /\ InitFixed
    /\ InitRequests

\* the host sends a request only when no other request is in flight
SequentialCall(p, className, includeMembers) ==
    /\ \A q \in Procs \ {p} : pc[q] \in {"idle", "done"}
    /\ GetClassDetails(p, className, includeMembers)

NextSequential ==
    \E p \in Procs :
        \/ \E className \in DetailClassNames, includeMembers \in BOOLEAN :
                SequentialCall(p, className, includeMembers)
        \/ ResumeNotFound(p)
        \/ ResumePoorQuality(p)
        \/ ResumeParse(p)
        \/ Return(p)

SpecSequential == InitDetail /\ [][NextSequential]_vars

NextPipelined ==
    \/ \E p \in Procs :
        \/ \E className \in DetailClassNames, includeMembers \in BOOLEAN :
                GetClassDetails(p, className, includeMembers)
        \/ ResumeNotFound(p)
        \/ ResumePoorQuality(p)
        \/ ResumeParse(p)
        \/ Return(p)
    \/ \E htmlFile \in {"beam.htm", "grid.htm"}, page \in PageVersions :
            ChangePage(htmlFile, page)

SpecPipelined == InitDetail /\ [][NextPipelined]_vars

NoRepeats(seq) == \A i, j \in 1..Len(seq) : i # j => seq[i] # seq[j]

\* the detailedInfo a returned value carries, <<>> when it carries none
DetailOf(returned) ==
    IF returned # <<>> /\ "detailedInfo" \in DOMAIN returned[1]
    THEN returned[1].detailedInfo ELSE <<>>

\* C7: after getClassDetails(name, true) was called twice in sequence for a class whose
\* source page parses and was not replaced, both calls returned the record with a
\* detailedInfo, the two are identical (the parse of the page as it is), and no
\* constructor, property or method is listed twice.
C7_DetailBothTimes ==
    (/\ pc[1] = "done" /\ pc[2] = "done"
     /\ req[1].op = "getClassDetails" /\ req[2].op = "getClassDetails"
     /\ req[1].className = req[2].className
     /\ req[1].includeMembers /\ req[2].includeMembers
     /\ local[1].classItem # 0
     /\ parseClassDetails(pageOf(classes[local[1].classItem].htmlFile)) # <<>>)
    => /\ DetailOf(ret[1]) # <<>>
       /\ DetailOf(ret[2]) = DetailOf(ret[1])
       /\ DetailOf(ret[1]) = parseClassDetails(pageOf(classes[local[1].classItem].htmlFile))
       /\ NoRepeats(DetailOf(ret[2])[1].constructors)
       /\ NoRepeats(DetailOf(ret[2])[1].properties)
       /\ NoRepeats(DetailOf(ret[2])[1].methods)

\* for the records that pass the quality gate the two calls do agree: both return the
\* record carrying the parse of the page, written over whatever was attached before
DetailAttachedTwice ==
    (/\ pc[1] = "done" /\ pc[2] = "done"
     /\ req[1].op = "getClassDetails" /\ req[2].op = "getClassDetails"
     /\ req[1].className = req[2].className
     /\ req[1].includeMembers /\ req[2].includeMembers
     /\ local[1].classItem # 0
     /\ ~hasPoorQuality(classes[local[1].classItem])
     /\ parseClassDetails(pageOf(classes[local[1].classItem].htmlFile)) # <<>>)
    => /\ ret[1] = ret[2]
       /\ DetailOf(ret[1]) = parseClassDetails(pageOf(classes[local[1].classItem].htmlFile))
       /\ NoRepeats(DetailOf(ret[2])[1].constructors)
       /\ NoRepeats(DetailOf(ret[2])[1].properties)
       /\ NoRepeats(DetailOf(ret[2])[1].methods)

\* what a parse of a page on disk can return when it returns anything
CompleteDetails ==
    {parseClassDetails(page) : page \in PageVersions \cup {GridPage, ColumnPage}} \ {<<>>}

\* C8: with two getClassDetails(name, true) requests in flight in any interleaving,
\* pages being replaced meanwhile, the detailedInfo of every class record is at all
\* times absent or the complete result of one parse; a request that parsed its page
\* returns the record with exactly its own result, and once both requests for the same
\* record have finished the record holds the complete result of one of the two.
C8_NoTornDetail ==
    /\ \A i \in 1..Len(classes) :
            \/ classes[i].detailedInfo = <<>>
            \/ classes[i].detailedInfo \in CompleteDetails
    /\ \A p \in Procs :
            (/\ pc[p] = "done" /\ req[p].op = "getClassDetails"
             /\ local[p].classItem # 0 /\ local[p].detailedInfo # <<>>)
            => DetailOf(ret[p]) = local[p].detailedInfo
    /\ (/\ pc[1] = "done" /\ pc[2] = "done"
        /\ req[1].op = "getClassDetails" /\ req[2].op = "getClassDetails"
        /\ local[1].classItem # 0 /\ local[1].classItem = local[2].classItem
        /\ local[1].detailedInfo # <<>> /\ local[2].detailedInfo # <<>>)
       => classes[local[1].classItem].detailedInfo \in {local[1].detailedInfo, local[2].detailedInfo}

\* C8 witness: request 1 parsed the page, the page was replaced, request 2 parsed the
\* new page and finished first; request 1 then wrote its whole result over it.
C8_Witness ==
    /\ pc[1] = "done" /\ pc[2] = "done"
    /\ req[1].op = "getClassDetails" /\ req[2].op = "getClassDetails"
    /\ req[1].className = "Beam" /\ req[2].className = "Beam"
    /\ local[1].detailedInfo # <<>> /\ local[2].detailedInfo # <<>>
    /\ local[1].detailedInfo # local[2].detailedInfo
    /\ local[2].detailedInfo = parseClassDetails(pages["beam.htm"])
    /\ DetailOf(ret[2]) = local[2].detailedInfo
    /\ classes[local[1].classItem].detailedInfo = local[1].detailedInfo

(***************************************************************************)
(* The quality gate of getClassDetails.                                    *)
(***************************************************************************)
\* a finished getClassDetails call that selected a local record
SelectedLocal(p) ==
    /\ pc[p] = "done"
    /\ req[p].op = "getClassDetails"
    /\ local[p].classItem # 0

\* the name a returned record carries, under either of its two field names
NameOf(record) ==
    IF "name" \in DOMAIN record THEN record.name
    ELSE IF "title" \in DOMAIN record THEN record.title
    ELSE ""

\* C13: when getClassDetails selected a low-quality local record and the fallback
\* answered, the returned record has the name, kind, depth, source page, detailedInfo
\* and computed members of the selected local record (only summary, description and
\* namespace come from the fallback).
C13_OnlyTextReplaced ==
    \A p \in Procs :
        (/\ SelectedLocal(p)
         /\ hasPoorQuality(classes[local[p].classItem])
         /\ local[p].onlineResult # <<>>)
        => /\ ret[p] # <<>>
           /\ NameOf(ret[p][1]) = classes[local[p].classItem].name
           /\ ret[p][1].type = classes[local[p].classItem].type
           /\ ret[p][1].level = classes[local[p].classItem].level
           /\ ret[p][1].htmlFile = classes[local[p].classItem].htmlFile
           /\ DetailOf(ret[p]) = classes[local[p].classItem].detailedInfo
           /\ ret[p][1].members = classMembers(classes[local[p].classItem],
                                               req[p].className, req[p].includeMembers)

\* C14: a finished getClassDetails(name, true) call that selected a local record with
\* a source page has parsed that page: with the page parseable and never replaced, the
\* call holds the result of the parse, whether or not the quality gate asked the
\* fallback.
C14_ParseAttempted ==
    \A p \in Procs :
        (/\ SelectedLocal(p)
         /\ req[p].includeMembers
         /\ classes[local[p].classItem].htmlFile # ""
         /\ parseClassDetails(pageOf(classes[local[p].classItem].htmlFile)) # <<>>)
        => local[p].detailedInfo =
                parseClassDetails(pageOf(classes[local[p].classItem].htmlFile))

\* C15: a finished getClassDetails(name, true) call whose parse of the source page
\* failed (page missing or empty) returned the selected record, and the returned record
\* carries no detailedInfo, whatever calls came before it.
C15_NoDetailAfterFailedParse ==
    \A p \in Procs :
        (/\ SelectedLocal(p)
         /\ req[p].includeMembers
         /\ classes[local[p].classItem].htmlFile # ""
         /\ local[p].onlineResult = <<>>
         /\ local[p].detailedInfo = <<>>)
        => /\ ret[p] # <<>>
           /\ NameOf(ret[p][1]) = classes[local[p].classItem].name
           /\ DetailOf(ret[p]) = <<>>

(***************************************************************************)
(* The kinds of the results of search.                                     *)
(***************************************************************************)
\* the kinds determineItemType gives a record
Kinds ==
    {"namespace", "class", "interface", "enum", "properties-collection",
     "methods-collection", "property", "method", "event", "field", "delegate", "other"}

\* C20: every result search returns, from the local index or from the fallback and for
\* every kind filter ('all' included), has a kind that is one of the fixed kind values.
C20_FixedKinds ==
    \A p \in Procs :
        (pc[p] = "done" /\ req[p].op = "search")
        => \A n \in 1..Len(ret[p]) :
                /\ "type" \in DOMAIN ret[p][n]
                /\ ret[p][n].type \in Kinds

(***************************************************************************)
(* OnlineApiFallback.searchOnline and its cache, called for any sequence   *)
(* of query shapes while the online reference comes and goes.              *)
(***************************************************************************)
CacheQueries == {"Beam", "Beam-all"}
CacheTypes == {"all", "class"}
CacheLimits == {1, 11}

SearchOnline(p, query, type, limit) ==
    /\ pc[p] = "idle"
    /\ req' = [req EXCEPT ![p] = [op |-> "searchOnline", query |-> query, type |-> type,
                                  limit |-> limit]]
    /\ pc' = [pc EXCEPT ![p] = "done"]
    /\ ret' = [ret EXCEPT ![p] = searchOnline(query, type, limit)]
    /\ cache' = cacheAfterSearchOnline(query, type, limit)
    /\ local' = [local EXCEPT ![p] =
                    [remoteCalls |-> 1,
                     remoteLookups |-> lookupsOfSearchOnline(query, type, limit)]]
    /\ UNCHANGED <<fixed, apiData, classes, methods, searchIndex, pages, edits>>

\* the online reference becomes unreachable, or reachable again
RemoteChange ==
    /\ remoteUp' = ~remoteUp
    /\ UNCHANGED <<apiData, classes, methods, searchIndex, cache, pages, edits, properties,
                   namespaces, enums, interfaces, examples, pc, req, local, ret>>

InitCache ==
    /\ apiData = CanonicalData
    /\ classes = SelectSeq(apiData, isClass)
    /\ methods = SelectSeq(apiData, isMethod)
    /\ searchIndex = <<>>
    /\ cache = <<>>
    /\ pages = InitialPages
    /\ edits = 0
    /\ InitFixed
    /\ InitRequests

NextCache ==
    \/ \E query \in CacheQueries, type \in CacheTypes, limit \in CacheLimits :
            SearchOnline(1, query, type, limit)
    \/ Return(1)
    \/ RemoteChange

SpecCache == InitCache /\ [][NextCache]_vars

KeyOfRequest(p) == cacheKey(req[p].query, req[p].type, req[p].limit)

\* every entry is the answer to the one query shape it is stored under, and distinct
\* shapes have distinct keys
EntryPerShape ==
    /\ \A query \in CacheQueries, type \in CacheTypes, limit \in CacheLimits :
            cacheKey(query, type, limit) \in DOMAIN cache
            => cache[cacheKey(query, type, limit)] = simulateOnlineResults(query, type, limit)
    /\ \A q1, q2 \in CacheQueries, t1, t2 \in CacheTypes, l1, l2 \in CacheLimits :
            cacheKey(q1, t1, l1) = cacheKey(q2, t2, l2) => (q1 = q2 /\ t1 = t2 /\ l1 = l2)

\* a finished call answered without a lookup returned the stored answer; a lookup that
\* succeeded is stored under the call's key
AnswerStored ==
    \A p \in Procs :
        (pc[p] = "done" /\ req[p].op = "searchOnline")
        => /\ local[p].remoteLookups = 0
              => (KeyOfRequest(p) \in DOMAIN cache /\ ret[p] = cache[KeyOfRequest(p)])
           /\ (local[p].remoteLookups = 1 /\ KeyOfRequest(p) \in DOMAIN cache)
              => ret[p] = cache[KeyOfRequest(p)]

\* a call looks the reference up exactly when its key is not stored yet; a step never
\* removes or replaces an entry, and adds one only for a lookup that succeeded
CacheStep ==
    /\ \A k \in DOMAIN cache : k \in DOMAIN cache' /\ cache'[k] = cache[k]
    /\ \A p \in Procs :
            (pc[p] = "idle" /\ pc'[p] = "done" /\ req'[p].op = "searchOnline")
            => LET k == cacheKey(req'[p].query, req'[p].type, req'[p].limit)
               IN  /\ (local'[p].remoteLookups = 0) <=> (k \in DOMAIN cache)
                   /\ (k \in DOMAIN cache') <=> (k \in DOMAIN cache \/ remoteUp)
                   /\ DOMAIN cache' \subseteq DOMAIN cache \cup {k}

InitRemote ==
    /\ apiData = DetailData
    /\ classes = SelectSeq(apiData, isClass)
    /\ methods = SelectSeq(apiData, isMethod)
    /\ searchIndex = <<SearchData>>
    /\ cache = <<>>
    /\ pages = [InitialPages EXCEPT !["grid.htm"] = GridPage]
    /\ edits = 0
    /\ InitFixed
    /\ InitRequests

NextRemote ==
    \/ \E type \in SearchTypes, limit \in {1, MaxLimit} :
         \/ \E ranked \in InjSeqs(Range(searchIndex[1]), MaxRanked) :
                Search(1, "Beam", type, limit, ranked, FALSE)
         \/ Search(1, "Beam", type, limit, <<>>, TRUE)
    \/ \E className \in DetailClassNames, includeMembers \in BOOLEAN :
            GetClassDetails(1, className, includeMembers)
    \/ ResumeNotFound(1)
    \/ ResumePoorQuality(1)
    \/ ResumeParse(1)
    \/ Return(1)
    \/ RemoteChange

SpecRemote == InitRemote /\ [][NextRemote]_vars

\* the fallback call of a finished search failed: it looked the reference up and left
\* nothing in the cache
SearchRemoteFailed(p) ==
    /\ pc[p] = "done" /\ req[p].op = "search"
    /\ local[p].remoteLookups = 1
    /\ KeyOfRequest(p) \notin DOMAIN cache

\* the fallback call of a finished getClassDetails failed: it was made and answered null
DetailsRemoteFailed(p) ==
    /\ pc[p] = "done" /\ req[p].op = "getClassDetails"
    /\ local[p].remoteCalls = 1
    /\ local[p].onlineResult = <<>>

Snippet(title, language) ==
    [title |-> title, code |-> "// " \o title, language |-> language, description |-> ""]

Example(name, description, apiElements, codeSnippets) ==
    [name |-> name, category |-> "Model", path |-> "", description |-> description,
     files |-> <<>>, codeSnippets |-> codeSnippets, apiElements |-> apiElements]

\* four snippets, the fourth in C# behind two in Visual Basic
BeamExample ==
    Example("BeamApp", "Creates parts", <<"Beam", "Model">>,
            <<Snippet("Create", "csharp"), Snippet("CreateVB", "vb"),
              Snippet("MainVB", "vb"), Snippet("Insert", "csharp")>>)
ColumnExample ==
    Example("Column", "Creates columns", <<"Column">>,
            <<Snippet("Create", "csharp"), Snippet("Main", "csharp")>>)
NumberedExample(n) ==
    Example("Beam" \o numberToString(n), "", <<>>,
            <<Snippet("A", "csharp"), Snippet("B", "csharp"), Snippet("C", "csharp")>>)

ExampleData ==
    <<ColumnExample, BeamExample,
      Example("Spline", "A curved beam", <<"Spline">>, <<Snippet("Curve", "vb")>>),
      Example("Plate", "", <<"ContourPlate", "BEAM">>, <<>>),
      NumberedExample(2), NumberedExample(3), NumberedExample(4), NumberedExample(5)>>

\* examples.json as fetch-examples wrote it, in either order, or no examples at all
ExampleLists == {ExampleData, Reverse(ExampleData), <<>>}

ExampleElements == {"beam", "Beam", "Column", "Zed"}
ExampleLanguages == {"csharp", "vb", "all"}

maxExamples == 5
maxSnippets == 3

\* strings.join(separator)
RECURSIVE join(_, _)
join(strings, separator) ==
    IF strings = <<>> THEN ""
    ELSE IF Len(strings) = 1 THEN strings[1]
    ELSE strings[1] \o separator \o join(Tail(strings), separator)

\* the filter callback of lines 326-328, for an example it does not throw on
exampleMatches(example, element) ==
    \/ includes(toLowerCase(example.name), toLowerCase(element))
    \/ \E n \in 1..Len(example.apiElements) :
            includes(toLowerCase(example.apiElements[n]), toLowerCase(element))
    \/ includes(toLowerCase(example.description), toLowerCase(element))

overviewEntry(example) ==
    [title |-> example.name \o " Example",
     description |-> example.description \o "\n\nCategory: " \o example.category
                     \o "\nAPI Elements: " \o join(example.apiElements, ", "),
     code |-> "", language |-> "text", type |-> "overview"]

snippetEntry(snippet, example) ==
    [title |-> snippet.title, description |-> snippet.description, code |-> snippet.code,
     language |-> snippet.language, type |-> "snippet", example |-> example.name]

passesLanguage(snippet, language) == language = "all" \/ snippet.language = language

\* what one pass of the outer loop pushes: the overview, then those of the first
\* maxSnippets snippets that are in the language
entriesOfExample(example, language) ==
    LET inLanguage(snippet) == passesLanguage(snippet, language)
        taken == SelectSeq(slice(example.codeSnippets, maxSnippets), inLanguage)
    IN  <<overviewEntry(example)>> \o [n \in 1..Len(taken) |-> snippetEntry(taken[n], example)]

RECURSIVE entriesOfExamples(_, _)
entriesOfExamples(list, language) ==
    IF list = <<>> THEN <<>>
    ELSE entriesOfExample(Head(list), language) \o entriesOfExamples(Tail(list), language)

\* the list getCodeExamples resolves to; [] from its catch when the filter callback
\* (lines 326-328) or the loop body (331-353) reads a property of undefined
getCodeExamples(element, language) ==
    LET filterThrows(example) ==
            \/ "name" \notin DOMAIN example
            \/ /\ ~includes(toLowerCase(example.name), toLowerCase(element))
               /\ \/ "apiElements" \notin DOMAIN example
                  \/ /\ \A n \in 1..Len(example.apiElements) :
                            ~includes(toLowerCase(example.apiElements[n]),
                                      toLowerCase(element))
                     /\ "description" \notin DOMAIN example
        emitThrows(example) ==
            "apiElements" \notin DOMAIN example \/ "codeSnippets" \notin DOMAIN example
        matches(example) == exampleMatches(example, element)
    IN  IF \E i \in 1..Len(examples) : filterThrows(examples[i]) THEN <<>>
        ELSE LET considered == slice(SelectSeq(examples, matches), maxExamples)
             IN  IF \E i \in 1..Len(considered) : emitThrows(considered[i]) THEN <<>>
                 ELSE entriesOfExamples(considered, language)

GetCodeExamples(p, element, language) ==
    /\ pc[p] = "idle"
    /\ req' = [req EXCEPT ![p] = [op |-> "getCodeExamples", element |-> element,
                                  language |-> language]]
    /\ pc' = [pc EXCEPT ![p] = "done"]
    /\ ret' = [ret EXCEPT ![p] = getCodeExamples(element, language)]
    /\ UNCHANGED <<fixed, apiData, classes, methods, searchIndex, cache, pages, edits, local>>

RECURSIVE codeSnippetsTotal(_)
codeSnippetsTotal(list) ==
    IF list = <<>> THEN 0
    ELSE Len(Head(list).codeSnippets) + codeSnippetsTotal(Tail(list))

getStatistics ==
    [totalItems |-> Len(apiData), classes |-> Len(classes), methods |-> Len(methods),
     properties |-> Len(properties), namespaces |-> Len(namespaces), enums |-> Len(enums),
     interfaces |-> Len(interfaces), examples |-> Len(examples),
     codeSnippets |-> codeSnippetsTotal(examples)]

\* getStatistics has no try: when the reduce callback of line 378 reads the length of
\* undefined, the throw rejects the promise the call returned
GetStatistics(p) ==
    /\ pc[p] = "idle"
    /\ req' = [req EXCEPT ![p] = [op |-> "getStatistics"]]
    /\ IF \E i \in 1..Len(examples) : "codeSnippets" \notin DOMAIN examples[i]
       THEN /\ pc' = [pc EXCEPT ![p] = "rejected"]
            /\ ret' = [ret EXCEPT ![p] = <<>>]
       ELSE /\ pc' = [pc EXCEPT ![p] = "done"]
            /\ ret' = [ret EXCEPT ![p] = <<getStatistics>>]
    /\ UNCHANGED <<fixed, apiData, classes, methods, searchIndex, cache, pages, edits, local>>

(***************************************************************************)
(* The engine serving one client, one request at a time: all six           *)
(* operations over a well-formed store, the online reference answering.    *)
(***************************************************************************)
InitEngine ==
    /\ apiData = DetailData
    /\ classes = SelectSeq(apiData, isClass)
    /\ methods = SelectSeq(apiData, isMethod)
    /\ properties = SelectSeq(apiData, isProperty)
    /\ namespaces = SelectSeq(apiData, isNamespace)
    /\ enums = SelectSeq(apiData, isEnum)
    /\ interfaces = SelectSeq(apiData, isInterface)
    /\ examples \in ExampleLists
    /\ searchIndex = <<SearchData>>
    /\ cache = <<>>
    /\ remoteUp = TRUE
    /\ pages = [InitialPages EXCEPT !["grid.htm"] = GridPage]
    /\ edits = 0
    /\ InitRequests

NextEngine ==
    \/ \E type \in SearchTypes :
         \/ \E ranked \in InjSeqs(Range(searchIndex[1]), MaxRanked) :
                Search(1, "Beam", type, MaxLimit, ranked, FALSE)
         \/ Search(1, "Beam", type, MaxLimit, <<>>, TRUE)
    \/ \E className \in DetailClassNames, includeMembers \in BOOLEAN :
            GetClassDetails(1, className, includeMembers)
    \/ ResumeNotFound(1)
    \/ ResumePoorQuality(1)
    \/ ResumeParse(1)
    \/ \E methodName \in MethodNames, className \in MethodClassNames :
            GetMethodDetails(1, methodName, className)
    \/ \E namespace \in NamespacePrefixes, includeMembers \in BOOLEAN :
            BrowseNamespace(1, namespace, includeMembers)
    \/ \E element \in ExampleElements, language \in ExampleLanguages :
            GetCodeExamples(1, element, language)
    \/ GetStatistics(1)
    \/ Return(1)

SpecEngine == InitEngine /\ [][NextEngine]_vars

\* a step leaves the combined collection, the partitions, the examples and the index as
\* they are; a class record changes only in its detailedInfo, and only in the step that
\* completes a getClassDetails(name, true) call that selected it
FrameStep ==
    /\ apiData' = apiData /\ methods' = methods /\ properties' = properties
    /\ namespaces' = namespaces /\ enums' = enums /\ interfaces' = interfaces
    /\ examples' = examples /\ searchIndex' = searchIndex
    /\ Len(classes') = Len(classes)
    /\ \A i \in 1..Len(classes) :
            \/ classes'[i] = classes[i]
            \/ /\ classes'[i] = [classes[i] EXCEPT !.detailedInfo = classes'[i].detailedInfo]
               /\ \E p \in Procs :
                    /\ req[p].op = "getClassDetails" /\ req[p].includeMembers
                    /\ local[p].classItem = i
                    /\ pc[p] # "done" /\ pc'[p] = "done"

\* the step of a getStatistics call changes neither the store nor the cache
StatisticsStep ==
    \A p \in Procs :
        (pc[p] = "idle" /\ pc'[p] # "idle" /\ req'[p].op = "getStatistics")
        => (classes' = classes /\ cache' = cache /\ pages' = pages)

\* a finished getStatistics call returned the sizes of the store as it is, having
\* called no fallback
StatisticsAnswer ==
    \A p \in Procs :
        (pc[p] # "idle" /\ req[p].op = "getStatistics")
        => /\ pc[p] = "done"
           /\ local[p].remoteCalls = 0
           /\ ret[p] = <<[totalItems |-> Len(apiData), classes |-> Len(classes),
                          methods |-> Len(methods), properties |-> Len(properties),
                          namespaces |-> Len(namespaces), enums |-> Len(enums),
                          interfaces |-> Len(interfaces), examples |-> Len(examples),
                          codeSnippets |-> codeSnippetsTotal(examples)]>>

\* C18: no operation changes the combined collection, the membership or order of a
\* partition, the examples or the search index; the only change to the store is the
\* detailedInfo of the class record a getClassDetails(name, true) call selected.
\* getStatistics changes nothing, calls no fallback and returns the partition sizes,
\* the example count and the sum of the snippet counts.
C18_OnlyDetailAttached == []StatisticsAnswer /\ [][FrameStep /\ StatisticsStep]_vars

\* C18 witness: with a detailedInfo attached to the Beam record by an earlier call,
\* getStatistics answered for a store that holds examples.
C18_Witness ==
    /\ pc[1] = "done" /\ req[1].op = "getStatistics"
    /\ \E i \in 1..Len(classes) : classes[i].detailedInfo # <<>>
    /\ ret[1][1].examples = Len(ExampleData)
    /\ ret[1][1].codeSnippets = 19
    /\ ret[1][1].classes = 2

\* the entries the first maxSnippets snippets in the language give, after the overview
FirstPassingEntries(example, language) ==
    LET inLanguage(snippet) == passesLanguage(snippet, language)
        taken == slice(SelectSeq(example.codeSnippets, inLanguage), maxSnippets)
    IN  <<overviewEntry(example)>> \o [n \in 1..Len(taken) |-> snippetEntry(taken[n], example)]

RECURSIVE FirstPassingOfAll(_, _)
FirstPassingOfAll(list, language) ==
    IF list = <<>> THEN <<>>
    ELSE FirstPassingEntries(Head(list), language) \o FirstPassingOfAll(Tail(list), language)

\* C19: getCodeExamples(element, language) returns, for the first 5 examples in store
\* order whose name, apiElements or description contains element case-insensitively,
\* one overview entry followed by the first up-to-3 of the example's snippets that are
\* in the language (any snippet for 'all'): never more than 20 entries.
C19_FirstPassingSnippets ==
    \A p \in Procs :
        (pc[p] = "done" /\ req[p].op = "getCodeExamples")
        => LET matches(example) == exampleMatches(example, req[p].element)
           IN  /\ Len(ret[p]) <= maxExamples * (1 + maxSnippets)
               /\ ret[p] = FirstPassingOfAll(slice(SelectSeq(examples, matches), maxExamples),
                                             req[p].language)

(***************************************************************************)
(* Startup: the constructor's loadApiData over the files of parsed-api,    *)
(* each missing, corrupt (not JSON) or holding JSON, and the example       *)
(* operations over what was loaded.                                        *)
(***************************************************************************)
Missing == [state |-> "missing"]
Corrupt == [state |-> "corrupt"]
Json(content) == [state |-> "json", content |-> content]

\* what each file of parsed-api can be; examples.json can hold examples that lack
\* codeSnippets or apiElements
FileChoices(file) ==
    CASE file = "full-api.json" -> {Missing, Corrupt, Json(CanonicalData)}
      [] file = "search-index.json" -> {Missing, Corrupt, Json(SearchData)}
      [] file = "classes.json" -> {Missing, Corrupt, Json(SelectSeq(CanonicalData, isClass))}
      [] file = "methods.json" -> {Missing, Corrupt, Json(SelectSeq(CanonicalData, isMethod))}
      [] file = "properties.json" ->
            {Missing, Corrupt, Json(SelectSeq(CanonicalData, isProperty))}
      [] file = "namespaces.json" -> {Json(SelectSeq(CanonicalData, isNamespace))}
      [] file = "enums.json" -> {Json(SelectSeq(CanonicalData, isEnum))}
      [] file = "interfaces.json" -> {Json(SelectSeq(CanonicalData, isInterface))}
      [] file = "examples.json" ->
            {Missing, Corrupt, Json(ExampleData),
             Json(<<ColumnExample,
                    [name |-> "Broken", category |-> "Model", path |-> "",
                     description |-> "", files |-> <<>>, apiElements |-> <<"Beam">>]>>),
             Json(<<[name |-> "Bare", category |-> "Model", path |-> "",
                     description |-> "", files |-> <<>>,
                     codeSnippets |-> <<Snippet("Main", "csharp")>>]>>)}

DiskFiles ==
    {("full-api.json" :> full) @@ ("search-index.json" :> index)
     @@ ("classes.json" :> cls) @@ ("methods.json" :> meth) @@ ("properties.json" :> prop)
     @@ ("namespaces.json" :> ns) @@ ("enums.json" :> enum) @@ ("interfaces.json" :> intf)
     @@ ("examples.json" :> ex) :
        full \in FileChoices("full-api.json"), index \in FileChoices("search-index.json"),
        cls \in FileChoices("classes.json"), meth \in FileChoices("methods.json"),
        prop \in FileChoices("properties.json"), ns \in FileChoices("namespaces.json"),
        enum \in FileChoices("enums.json"), intf \in FileChoices("interfaces.json"),
        ex \in FileChoices("examples.json")}

\* loadApiData, with loadTypeSpecificData and loadExamples.  A corrupt full-api.json or
\* search-index.json throws out of the one try of loadApiData: what comes after it in
\* the body is skipped and the fields keep their initial values.
LoadApiData(p) ==
    /\ pc[p] = "loadApiData"
    /\ LET files == req[p].files
           fullThrows == files["full-api.json"].state = "corrupt"
           indexThrows == ~fullThrows /\ files["search-index.json"].state = "corrupt"
           loadTypeSpecificData(file) ==
               IF ~fullThrows /\ ~indexThrows /\ files[file].state = "json"
               THEN files[file].content ELSE <<>>
       IN  /\ apiData' = IF files["full-api.json"].state = "json"
                         THEN files["full-api.json"].content ELSE <<>>
           /\ searchIndex' = IF ~fullThrows /\ files["search-index.json"].state = "json"
                             THEN <<files["search-index.json"].content>> ELSE <<>>
           /\ classes' = loadTypeSpecificData("classes.json")
           /\ methods' = loadTypeSpecificData("methods.json")
           /\ properties' = loadTypeSpecificData("properties.json")
           /\ namespaces' = loadTypeSpecificData("namespaces.json")
           /\ enums' = loadTypeSpecificData("enums.json")
           /\ interfaces' = loadTypeSpecificData("interfaces.json")
           /\ examples' = loadTypeSpecificData("examples.json")
    /\ pc' = [pc EXCEPT ![p] = "done"]
    /\ UNCHANGED <<cache, pages, edits, remoteUp, req, local, ret>>

\* the fields as their initialisers leave them, the constructor about to load
InitStartup ==
    /\ apiData = <<>> /\ searchIndex = <<>>
    /\ classes = <<>> /\ methods = <<>> /\ properties = <<>>
    /\ namespaces = <<>> /\ enums = <<>> /\ interfaces = <<>>
    /\ examples = <<>>
    /\ cache = <<>>
    /\ remoteUp = TRUE
    /\ pages = InitialPages
    /\ edits = 0
    /\ pc = [p \in Procs |-> IF p = 1 THEN "loadApiData" ELSE "idle"]
    /\ \E files \in DiskFiles :
            req = [p \in Procs |-> IF p = 1 THEN [op |-> "loadApiData", files |-> files]
                                   ELSE NoRequest]
    /\ local = [p \in Procs |-> NoLocals]
    /\ ret = [p \in Procs |-> <<>>]

NextStartup ==
    \/ LoadApiData(1)
    \/ GetStatistics(1)
    \/ \E element \in {"Beam", "Column"} : GetCodeExamples(1, element, "csharp")
    \/ Return(1)

SpecStartup == InitStartup /\ [][NextStartup]_vars

\* what a file feeds its collection: its content when it holds JSON, nothing otherwise
Fed(p, file) ==
    IF req[p].files[file].state = "json" THEN req[p].files[file].content ELSE <<>>

\* C12: startup completes, and after it every collection holds the full content of its
\* file when the file is present and well formed and is empty otherwise, whatever the
\* state of the other files.
C12_PerFileDegradation ==
    \A p \in Procs :
        (pc[p] # "loadApiData" /\ req[p].op = "loadApiData")
        => /\ pc[p] = "done"
           /\ apiData = Fed(p, "full-api.json")
           /\ searchIndex = (IF req[p].files["search-index.json"].state = "json"
                             THEN <<Fed(p, "search-index.json")>> ELSE <<>>)
           /\ classes = Fed(p, "classes.json")
           /\ methods = Fed(p, "methods.json")
           /\ properties = Fed(p, "properties.json")
           /\ namespaces = Fed(p, "namespaces.json")
           /\ enums = Fed(p, "enums.json")
           /\ interfaces = Fed(p, "interfaces.json")
           /\ examples = Fed(p, "examples.json")

\* C11: no operation of the engine, run over whatever records were loaded (records
\* with missing fields included), lets a fault escape: no call ends in a rejection.
C11_NoFaultEscapes ==
    \A p \in Procs : pc[p] # "rejected"

(***************************************************************************)
(* The lightweight parser (parseLightweight) and its first version         *)
(* (parseSimpleApi): the walk over the navigation document that builds     *)
(* tocStructure, and the normalisation of one page into a record.          *)
(*                                                                         *)
(* An entry of the navigation document is an OBJECT element: its Name and  *)
(* Local params (<<>> when the param is missing) and the tag names of its  *)
(* ancestors, from its parent up to the root.  A page is what the regular  *)
(* expressions of parseLight capture in its markup: <<>> when there is no  *)
(* match, <<captured text>> otherwise.                                     *)
(***************************************************************************)
MAX_ITEMS == 2      \* entries of the table of contents that are normalised
sampleLimit == 2    \* the same limit in parseSimpleApi
MaxToc == 3         \* entries of a navigation document

determineItemTypeMemberFirst(name) ==
    IF name = "Tekla.Structures" \/ includes(name, "Namespace") THEN "namespace"
    ELSE IF includes(name, " Class") /\ ~includes(name, " Classes") THEN "class"
    ELSE IF includes(name, " Interface") /\ ~includes(name, " Interfaces") THEN "interface"
    ELSE IF includes(name, " Enumeration") \/ includes(name, " Enum") THEN "enum"
    ELSE IF includes(name, " Property ") THEN "property"
    ELSE IF includes(name, " Method ") \/ includes(name, " Constructor ") THEN "method"
    ELSE IF includes(name, " Properties") \/ includes(name, " Members")
         THEN "properties-collection"
    ELSE IF includes(name, " Methods") THEN "methods-collection"
    ELSE IF includes(name, " Event ") THEN "event"
    ELSE IF includes(name, " Field ") THEN "field"
    ELSE IF includes(name, " Delegate ") THEN "delegate"
    ELSE "other"

determineItemType(name) ==
    IF name = "Tekla.Structures" \/ includes(name, "Namespace") THEN "namespace"
    ELSE IF includes(name, " Class") /\ ~includes(name, " Classes") THEN "class"
    ELSE IF includes(name, " Interface") /\ ~includes(name, " Interfaces") THEN "interface"
    ELSE IF includes(name, " Enumeration") \/ includes(name, " Enum") THEN "enum"
    ELSE IF includes(name, " Properties") \/ includes(name, " Members")
         THEN "properties-collection"
    ELSE IF includes(name, " Methods") THEN "methods-collection"
    ELSE IF includes(name, " Property ") THEN "property"
    ELSE IF includes(name, " Method ") \/ includes(name, " Constructor ") THEN "method"
    ELSE IF includes(name, " Event ") THEN "event"
    ELSE IF includes(name, " Field ") THEN "field"
    ELSE IF includes(name, " Delegate ") THEN "delegate"
    ELSE "other"

\* [A-Za-z.]
isNamespaceChar(c) ==
    \/ c = "."
    \/ toLowerChar(c) \in {"a", "b", "c", "d", "e", "f", "g", "h", "i", "j", "k", "l", "m",
                           "n", "o", "p", "q", "r", "s", "t", "u", "v", "w", "x", "y", "z"}

\* the longest prefix of s made of [A-Za-z.]
RECURSIVE namespaceRun(_)
namespaceRun(s) ==
    IF s # "" /\ isNamespaceChar(SubSeq(s, 1, 1))
    THEN SubSeq(s, 1, 1) \o namespaceRun(SubSeq(s, 2, Len(s)))
    ELSE ""

\* name.match(/(Tekla\.[A-Za-z.]+)(?:\s+(?:Class|...))?/): <<>> when nothing matches,
\* <<group 1>> of the leftmost match otherwise
RECURSIVE teklaMatch(_)
teklaMatch(s) ==
    IF Len(s) < 7 THEN <<>>
    ELSE IF startsWith(s, "Tekla.") /\ isNamespaceChar(SubSeq(s, 7, 7))
         THEN <<"Tekla." \o namespaceRun(SubSeq(s, 7, Len(s)))>>
         ELSE teklaMatch(SubSeq(s, 2, Len(s)))

\* s.split('.').length
RECURSIVE partsCount(_)
partsCount(s) ==
    IF s = "" THEN 1
    ELSE (IF SubSeq(s, 1, 1) = "." THEN 1 ELSE 0) + partsCount(SubSeq(s, 2, Len(s)))

\* s.split('.').slice(0, n).join('.') for n >= 1
RECURSIVE firstParts(_, _)
firstParts(s, n) ==
    IF s = "" THEN ""
    ELSE IF SubSeq(s, 1, 1) = "."
         THEN (IF n = 1 THEN "" ELSE "." \o firstParts(SubSeq(s, 2, Len(s)), n - 1))
         ELSE SubSeq(s, 1, 1) \o firstParts(SubSeq(s, 2, Len(s)), n)

\* extractNamespace of the lightweight parser
extractNamespace(name) ==
    IF includes(name, "Tekla.") /\ teklaMatch(name) # <<>>
    THEN LET namespace == teklaMatch(name)[1]
         IN  IF partsCount(namespace) > 3 THEN firstParts(namespace, 3) ELSE namespace
    ELSE IF includes(name, "Tekla.Structures.Model") THEN "Tekla.Structures.Model"
    ELSE IF includes(name, "Tekla.Structures.Drawing") THEN "Tekla.Structures.Drawing"
    ELSE IF includes(name, "Tekla.Structures.Analysis") THEN "Tekla.Structures.Analysis"
    ELSE IF includes(name, "Tekla.Structures.Geometry3d") THEN "Tekla.Structures.Geometry3d"
    ELSE IF includes(name, "Tekla.Structures.Plugins") THEN "Tekla.Structures.Plugins"
    ELSE IF includes(name, "Tekla.Structures") THEN "Tekla.Structures"
    ELSE ""

\* extractNamespace of parse-simple.js: the first word of a name that starts with the
\* product root, when it has a dot
extractNamespaceSimple(name) ==
    LET namespacePart == IF includes(name, " ") THEN SubSeq(name, 1, indexOf(name, " "))
                         ELSE name
    IN  IF startsWith(name, "Tekla.") /\ includes(namespacePart, ".") THEN namespacePart
        ELSE ""

\* s.replace(t, r): the first occurrence only
replaceFirst(s, t, r) ==
    IF includes(s, t)
    THEN SubSeq(s, 1, indexOf(s, t)) \o r \o SubSeq(s, indexOf(s, t) + Len(t) + 1, Len(s))
    ELSE s

\* s.replace(/<[^>]*>/g, '')
RECURSIVE stripTags(_)
stripTags(s) ==
    IF s = "" THEN ""
    ELSE IF SubSeq(s, 1, 1) = "<" /\ includes(s, ">")
         THEN stripTags(SubSeq(s, indexOf(s, ">") + 2, Len(s)))
         ELSE SubSeq(s, 1, 1) \o stripTags(SubSeq(s, 2, Len(s)))

\* the level loop: the run of UL elements that starts at the parent of the entry
RECURSIVE levelOf(_)
levelOf(ancestors) ==
    IF ancestors # <<>> /\ Head(ancestors) = "UL" THEN 1 + levelOf(Tail(ancestors)) ELSE 0

\* the callback of items.forEach, for an entry that has both params
tocEntry(item, simple) ==
    [name |-> item.name[1],
     htmlFile |-> replaceFirst(item.local[1], "html/", ""),
     level |-> levelOf(item.ancestors),
     type |-> determineItemType(item.name[1]),
     namespace |-> IF simple THEN extractNamespaceSimple(item.name[1])
                   ELSE extractNamespace(item.name[1])]

hasParams(item) == item.name # <<>> /\ item.local # <<>>

\* tocStructure after items.forEach
RECURSIVE walkToc(_, _)
walkToc(items, simple) ==
    IF items = <<>> THEN <<>>
    ELSE (IF hasParams(Head(items)) THEN <<tocEntry(Head(items), simple)>> ELSE <<>>)
            \o walkToc(Tail(items), simple)

\* parseLight: <<>> for null
parseLight(filePath, tocItem) ==
    IF filePath \notin DOMAIN pages \/ pages[filePath].state # "html" THEN <<>>
    ELSE LET page == pages[filePath]
             title == IF page.titleMatch # <<>> THEN trim(page.titleMatch[1])
                      ELSE tocItem.name
             description == IF page.descMatch # <<>> THEN page.descMatch[1] ELSE ""
             containerNamespace ==
                 IF page.containerMatch # <<>> THEN page.containerMatch[1] ELSE ""
             summary == IF page.summaryMatch # <<>>
                        THEN replaceSpaceRuns(trim(stripTags(page.summaryMatch[1])), " ")
                        ELSE ""
             namespace == IF tocItem.namespace # "" THEN tocItem.namespace
                          ELSE containerNamespace
         IN  <<[title |-> title,
                description |-> description,
                summary |-> IF summary # "" THEN summary ELSE description,
                namespace |-> IF namespace # "" THEN namespace ELSE extractNamespace(title),
                type |-> tocItem.type,
                level |-> tocItem.level,
                htmlFile |-> filePath]>>

\* parseSimpleHtml: <<>> for null.  The page has at most one element among those the
\* summary loop visits, the summary block.
parseSimpleHtml(filePath, tocItem) ==
    IF filePath \notin DOMAIN pages \/ pages[filePath].state # "html" THEN <<>>
    ELSE LET page == pages[filePath]
             titleText == IF page.titleMatch # <<>> THEN trim(page.titleMatch[1]) ELSE ""
             text == IF page.summaryMatch # <<>> THEN trim(stripTags(page.summaryMatch[1]))
                     ELSE ""
             title == IF titleText # "" THEN titleText ELSE tocItem.name
         IN  <<[title |-> title,
                description |-> IF page.descMatch # <<>> THEN page.descMatch[1] ELSE "",
                summary |-> IF text # "" /\ Len(text) < 500 THEN text ELSE "",
                namespace |-> IF tocItem.namespace # "" THEN tocItem.namespace
                              ELSE extractNamespaceSimple(title),
                type |-> tocItem.type,
                level |-> tocItem.level,
                htmlFile |-> filePath]>>

\* the loop over the subset: the records of the entries that name a page
RECURSIVE parseItems(_, _)
parseItems(items, simple) ==
    IF items = <<>> THEN <<>>
    ELSE (IF Head(items).htmlFile # ""
          THEN (IF simple THEN parseSimpleHtml(Head(items).htmlFile, Head(items))
                ELSE parseLight(Head(items).htmlFile, Head(items)))
          ELSE <<>>)
            \o parseItems(Tail(items), simple)

\* apiData.map(item => ({title, type, namespace, summary, description, htmlFile}))
RECURSIVE searchIndexOf(_)
searchIndexOf(records) ==
    IF records = <<>> THEN <<>>
    ELSE <<[title |-> Head(records).title, type |-> Head(records).type,
            namespace |-> Head(records).namespace, summary |-> Head(records).summary,
            description |-> Head(records).description,
            htmlFile |-> Head(records).htmlFile]>> \o searchIndexOf(Tail(records))

\* the views and the files written after the loop; the stats and the validation report
\* are derived from them and are left out
SaveParsedData(p, tocStructure, records) ==
    /\ apiData' = records
    /\ namespaces' = SelectSeq(records, isNamespace)
    /\ classes' = SelectSeq(records, isClass)
    /\ interfaces' = SelectSeq(records, isInterface)
    /\ enums' = SelectSeq(records, isEnum)
    /\ methods' = SelectSeq(records, isMethod)
    /\ properties' = SelectSeq(records, isProperty)
    /\ searchIndex' = <<searchIndexOf(records)>>
    /\ ret' = [ret EXCEPT ![p] = <<[apiData |-> records,
                                    searchIndex |-> searchIndexOf(records),
                                    tocStructure |-> tocStructure]>>]
    /\ pc' = [pc EXCEPT ![p] = "done"]
    /\ UNCHANGED <<examples, remoteUp, cache, pages, edits, req, local>>

ParseLightweight(p) ==
    /\ pc[p] = "parseLightweight"
    /\ LET tocStructure == walkToc(req[p].document, FALSE)
           subsetItems == slice(tocStructure, MAX_ITEMS)
       IN  SaveParsedData(p, tocStructure, parseItems(subsetItems, FALSE))

ParseSimpleApi(p) ==
    /\ pc[p] = "parseSimpleApi"
    /\ LET tocStructure == walkToc(req[p].document, TRUE)
           sampleSize == IF sampleLimit < Len(tocStructure) THEN sampleLimit
                         ELSE Len(tocStructure)
       IN  SaveParsedData(p, tocStructure, parseItems(slice(tocStructure, sampleSize), TRUE))

(***************************************************************************)
(* The documents and the pages the parser is run on.                       *)
(***************************************************************************)
Markup(titleMatch, descMatch, containerMatch, summaryMatch) ==
    [state |-> "html", titleMatch |-> titleMatch, descMatch |-> descMatch,
     containerMatch |-> containerMatch, summaryMatch |-> summaryMatch]

HtmlDir ==
    ("plain.htm" :> Markup(<<" Beam Class ">>, <<>>, <<>>, <<>>))
    @@ ("empty.htm" :> Markup(<<"">>, <<"A part.">>, <<>>, <<>>))
    @@ ("blank.htm" :> Markup(<<"  ">>, <<>>, <<>>, <<>>))
    @@ ("notitle.htm" :> Markup(<<>>, <<"A part.">>, <<"Tekla.Structures.Drawing">>,
                                <<"<p>Draws  a <b>part</b>.</p>">>))
    @@ ("meta.htm" :> Markup(<<"Operation Class">>, <<>>,
                             <<"Tekla.Structures.Model.Operations">>, <<>>))
    @@ ("full.htm" :> Markup(<<"Tekla.Structures.Geometry3d.Point.X Property">>, <<>>, <<>>,
                             <<>>))
    @@ ("bare.htm" :> Markup(<<"Point">>, <<>>, <<"">>, <<>>))

Locals == {"html/plain.htm", "html/empty.htm", "html/blank.htm", "html/notitle.htm",
           "html/meta.htm", "html/full.htm", "html/bare.htm", "html/gone.htm", "html/"}

DisplayNames ==
    {"Tekla.Structures", "Tekla.Structures.Model Namespace", "Beam Class", "Part Classes",
     "IPlugin Interface", "Position Enumeration", "Beam Properties", "Beam Members",
     "Beam Methods", "Name Property (Beam)", "Insert Method (Beam)", "Beam Constructor (a)",
     "Changed Event (a)", "Length Field (a)", "Callback Delegate (a)", "Beam",
     "Beam Properties Property (a)", "NamespaceDoc Class",
     "Tekla.Structures.Model.Operations.Operation Class"}

AncestorPaths ==
    {<<"BODY", "HTML">>, <<"UL", "BODY", "HTML">>, <<"UL", "UL", "BODY", "HTML">>,
     <<"LI", "UL", "BODY", "HTML">>, <<"LI", "UL", "LI", "UL", "BODY", "HTML">>}

Sitemap(name, loc, ancestors) == [name |-> name, local |-> loc, ancestors |-> ancestors]

\* entries of longer documents
SitemapPool ==
    {Sitemap(<<"Beam Class">>, <<"html/plain.htm">>, <<"LI", "UL", "BODY", "HTML">>),
     Sitemap(<<"Beam Class">>, <<"html/meta.htm">>, <<"UL", "UL", "BODY", "HTML">>),
     Sitemap(<<"Beam">>, <<"html/empty.htm">>, <<"UL", "BODY", "HTML">>),
     Sitemap(<<"Beam Methods">>, <<>>, <<"UL", "BODY", "HTML">>),
     Sitemap(<<"Tekla.Structures">>, <<"html/notitle.htm">>, <<"UL", "BODY", "HTML">>)}

NavDocuments ==
    {<<Sitemap(<<name>>, <<loc>>, ancestors)>> :
        name \in DisplayNames, loc \in Locals, ancestors \in AncestorPaths}
    \cup {<<Sitemap(<<>>, <<"html/plain.htm">>, <<"UL", "BODY", "HTML">>)>>}
    \cup UNION {[1..n -> SitemapPool] : n \in 2..MaxToc}

InitParser ==
    /\ apiData = <<>> /\ searchIndex = <<>>
    /\ classes = <<>> /\ methods = <<>> /\ properties = <<>>
    /\ namespaces = <<>> /\ enums = <<>> /\ interfaces = <<>>
    /\ examples = <<>>
    /\ cache = <<>>
    /\ remoteUp = TRUE
    /\ pages = HtmlDir
    /\ edits = 0
    /\ \E op \in {"parseLightweight", "parseSimpleApi"}, document \in NavDocuments :
            /\ pc = [p \in Procs |-> IF p = 1 THEN op ELSE "idle"]
            /\ req = [p \in Procs |-> IF p = 1 THEN [op |-> op, document |-> document]
                                      ELSE NoRequest]
    /\ local = [p \in Procs |-> NoLocals]
    /\ ret = [p \in Procs |-> <<>>]

NextParser ==
    \/ ParseLightweight(1)
    \/ ParseSimpleApi(1)
    \/ Return(1)

SpecParser == InitParser /\ [][NextParser]_vars

\* a parser run that has finished and has not been collected
Parsed(p) == pc[p] = "done" /\ req[p].op \in {"parseLightweight", "parseSimpleApi"}

\* the rows of the kind table in order: a name matches a row when it is one of its exact
\* names, or contains one of its any-patterns and none of its none-patterns
KindTable ==
    <<[kind |-> "namespace", exact |-> {"Tekla.Structures"}, any |-> {"Namespace"},
       none |-> {}],
      [kind |-> "class", exact |-> {}, any |-> {" Class"}, none |-> {" Classes"}],
      [kind |-> "interface", exact |-> {}, any |-> {" Interface"}, none |-> {" Interfaces"}],
      [kind |-> "enum", exact |-> {}, any |-> {" Enumeration", " Enum"}, none |-> {}],
      [kind |-> "properties-collection", exact |-> {}, any |-> {" Properties", " Members"},
       none |-> {}],
      [kind |-> "methods-collection", exact |-> {}, any |-> {" Methods"}, none |-> {}],
      [kind |-> "property", exact |-> {}, any |-> {" Property "}, none |-> {}],
      [kind |-> "method", exact |-> {}, any |-> {" Method ", " Constructor "}, none |-> {}],
      [kind |-> "event", exact |-> {}, any |-> {" Event "}, none |-> {}],
      [kind |-> "field", exact |-> {}, any |-> {" Field "}, none |-> {}],
      [kind |-> "delegate", exact |-> {}, any |-> {" Delegate "}, none |-> {}]>>

RowMatches(row, name) ==
    \/ name \in row.exact
    \/ /\ \E pattern \in row.any : includes(name, pattern)
       /\ \A pattern \in row.none : ~includes(name, pattern)

MatchingRows(name) == {i \in 1..Len(KindTable) : RowMatches(KindTable[i], name)}

FirstRowKind(name) ==
    IF MatchingRows(name) = {} THEN "other" ELSE KindTable[Min(MatchingRows(name))].kind

\* C21: every entry of the table of contents carries the kind of the first row of the
\* kind table that its display name matches, 'other' when it matches no row, and two
\* entries with the same display name carry the same kind.
C21_FirstRowWins ==
    \A p \in Procs :
        Parsed(p) =>
            LET toc == ret[p][1].tocStructure
            IN  /\ \A i \in 1..Len(toc) : toc[i].type = FirstRowKind(toc[i].name)
                /\ \A i, j \in 1..Len(toc) : toc[i].name = toc[j].name => toc[i].type = toc[j].type

\* a name that matches the properties-collection row and the property row was classified
C21_Witness ==
    /\ Parsed(1)
    /\ \E i \in 1..Len(ret[1][1].tocStructure) :
            /\ Cardinality(MatchingRows(ret[1][1].tocStructure[i].name)) > 1
            /\ includes(ret[1][1].tocStructure[i].name, " Property ")
            /\ ret[1][1].tocStructure[i].type = "properties-collection"

\* the entries of the navigation document that became entries of tocStructure, in order
Kept(p) == FilterIdx(req[p].document, hasParams, 1)

\* the entries of tocStructure that became records, in order
Sources(p) ==
    LET limit == IF req[p].op = "parseLightweight" THEN MAX_ITEMS ELSE sampleLimit
        produced(entry) ==
            /\ entry.htmlFile # ""
            /\ entry.htmlFile \in DOMAIN pages
            /\ pages[entry.htmlFile].state = "html"
    IN  FilterIdx(slice(ret[p][1].tocStructure, limit), produced, 1)

RecordOf(p, k) == ret[p][1].apiData[k]

EntryOf(p, k) == ret[p][1].tocStructure[Sources(p)[k]]

\* C22: every record the parser produces has a non-empty title; when the page has no
\* title element, or an empty or blank one, the title is the display name of its entry.
C22_TitleNeverEmpty ==
    \A p \in Procs :
        Parsed(p) =>
            \A k \in 1..Len(ret[p][1].apiData) :
                LET page == pages[RecordOf(p, k).htmlFile]
                IN  /\ RecordOf(p, k).title # ""
                    /\ (page.titleMatch = <<>> \/ trim(page.titleMatch[1]) = "")
                       => RecordOf(p, k).title = EntryOf(p, k).name

\* C26: the level of every entry of tocStructure is the number of list containers (UL)
\* among the ancestors of the entry in the navigation document, list items in between
\* included.
C26_DepthCountsLists ==
    \A p \in Procs :
        Parsed(p) =>
            \A k \in 1..Len(ret[p][1].tocStructure) :
                LET ancestors == req[p].document[Kept(p)[k]].ancestors
                IN  ret[p][1].tocStructure[k].level
                        = Cardinality({i \in 1..Len(ancestors) : ancestors[i] = "UL"})

\* C27: a record of parseLight whose page carries the container metadata has that value
\* as its namespace, and a record has the empty namespace only when the metadata, the
\* title and the display name yield none.
C27_MetadataNamespace ==
    \A p \in Procs :
        (Parsed(p) /\ req[p].op = "parseLightweight") =>
            \A k \in 1..Len(ret[p][1].apiData) :
                LET page == pages[RecordOf(p, k).htmlFile]
                    container == IF page.containerMatch # <<>> THEN page.containerMatch[1]
                                 ELSE ""
                IN  /\ container # "" => RecordOf(p, k).namespace = container
                    /\ RecordOf(p, k).namespace = ""
                       => /\ container = ""
                          /\ extractNamespace(RecordOf(p, k).title) = ""
                          /\ extractNamespace(EntryOf(p, k).name) = ""

\* C28: the kind of a record is the kind its title classifies to, also when the entry it
\* came from has another kind, and the entry keeps the kind of its display name.
C28_TitleKind ==
    \A p \in Procs :
        Parsed(p) =>
            \A k \in 1..Len(ret[p][1].apiData) :
                /\ RecordOf(p, k).type = determineItemType(RecordOf(p, k).title)
                /\ EntryOf(p, k).type = determineItemType(EntryOf(p, k).name)

(***************************************************************************)
(* getClassDetails over a class partition whose records carry a qualified  *)
(* identifier beside their display name, and whose names repeat across     *)
(* three namespaces.                                                       *)
(***************************************************************************)
BeamById ==
    ApiItem("Tekla.Structures.Model.Beam", "Beam Class", ModelNs, "Represents a beam.",
            "class", 2, "beam.htm")
BeamGroupById ==
    ApiItem("Tekla.Structures.Model.BeamGroup", "BeamGroup Class", ModelNs,
            "A group of beams.", "class", 2, "")
ColumnAnalysis == ApiItem("Column", "Column", AnalysisNs, "A column member.", "class", 2, "")

LookupPool == {BeamById, BeamGroupById, ColumnAnalysis, ColumnDrawing, ColumnModel, GridClass}

LookupNames == {"Tekla.Structures.Model.Beam", "Column", "Grid", "Zed"}

InitLookup ==
    /\ classes \in InjSeqs(LookupPool, MaxClasses)
    /\ apiData = classes
    /\ methods = <<>>
    /\ searchIndex = <<>>
    /\ cache = <<>>
    /\ pages = InitialPages
    /\ edits = 0
    /\ InitFixed
    /\ InitRequests

NextLookup ==
    \/ \E className \in LookupNames, includeMembers \in BOOLEAN :
            GetClassDetails(1, className, includeMembers)
    \/ ResumeNotFound(1)
    \/ ResumePoorQuality(1)
    \/ ResumeParse(1)
    \/ Return(1)

SpecLookup == InitLookup /\ [][NextLookup]_vars

\* the records whose identifier is the query, case aside
IdVerbatim(className) ==
    {i \in 1..Len(classes) : toLowerCase(classes[i].id) = toLowerCase(className)}

\* C23: when the identifier of a class record equals the query (case-insensitive), that
\* record counts as an exact match: getClassDetails selects a record whose identifier is
\* the query or that passes the exact-match test, never one that matches the query only
\* as a whole word or as a substring.
C23_IdentifierIsExact ==
    \A p \in Procs :
        (req[p].op = "getClassDetails" /\ IdVerbatim(req[p].className) # {})
        => local[p].classItem \in IdVerbatim(req[p].className)
                                    \cup ClassIdx(exactMatch, req[p].className)

\* the namespaces of the candidates
Represented(classItems) == {classes[classItems[k]].namespace : k \in 1..Len(classItems)}

\* C24: when the deciding pass yields several candidates and the namespaces represented
\* are not exactly the modeling namespace and the drawing namespace, getClassDetails
\* selects the first candidate in store order.
C24_FirstInStoreOrder ==
    \A p \in Procs :
        (/\ req[p].op = "getClassDetails"
         /\ Len(findClassItems(req[p].className)) > 1
         /\ Represented(findClassItems(req[p].className)) # {ModelNs, DrawingNs})
        => local[p].classItem = findClassItems(req[p].className)[1]

\* C25: on every record that has a namespace and a summary, the predicate by which
\* shouldUseFallback counts a local result as poor (a one-element list is answered with
\* true exactly when its element is poor) agrees with the predicate of the quality gate
\* of getClassDetails.
C25_SameQualityPredicate ==
    \A p \in Procs :
        req[p].op = "shouldUseFallback" =>
            \A i \in 1..Len(req[p].localResults) :
                LET result == req[p].localResults[i]
                IN  {"namespace", "summary"} \subseteq DOMAIN result
                    => (shouldUseFallback(<<result>>, req[p].query) <=> hasPoorQuality(result))

(***************************************************************************)
(* parseClassDetails called on its own, over pages on which some of the    *)
(* extraction sub-steps throw.                                             *)
(***************************************************************************)
Throwing(page, steps) == [throws |-> steps] @@ page

ThrowingPages ==
    {[InitialPages EXCEPT !["beam.htm"] = Throwing(page, steps)] :
        page \in {BeamPage, BeamPageRevised, ColumnPage, GridPage},
        steps \in SUBSET Range(Steps)}

ParseClassDetails(p) ==
    /\ pc[p] = "idle"
    /\ req[p].op = "parseClassDetails"
    /\ ret' = [ret EXCEPT ![p] = parseClassDetails(pageOf(req[p].htmlFile))]
    /\ pc' = [pc EXCEPT ![p] = "done"]
    /\ UNCHANGED <<fixed, apiData, classes, methods, searchIndex, cache, pages, edits, req, local>>

InitDeepParse ==
    /\ apiData = CanonicalData
    /\ classes = SelectSeq(apiData, isClass)
    /\ methods = SelectSeq(apiData, isMethod)
    /\ searchIndex = <<>>
    /\ cache = <<>>
    /\ pages \in ThrowingPages
    /\ edits = 0
    /\ InitFixed
    /\ pc = [p \in Procs |-> "idle"]
    /\ \E htmlFile \in HtmlFiles :
            req = [p \in Procs |-> IF p = 1 THEN [op |-> "parseClassDetails",
                                                  htmlFile |-> htmlFile]
                                   ELSE NoRequest]
    /\ local = [p \in Procs |-> NoLocals]
    /\ ret = [p \in Procs |-> <<>>]

NextDeepParse == ParseClassDetails(1)

SpecDeepParse == InitDeepParse /\ [][NextDeepParse]_vars

IsList(x) == DOMAIN x = 1..Cardinality(DOMAIN x)

\* the document without the failures of its sub-steps
Sound(document) == [f \in (DOMAIN document) \ {"throws"} |-> document[f]]

EmptyDefault(step) ==
    IF step = "inheritance" THEN [baseClasses |-> <<>>, hierarchy |-> <<>>] ELSE <<>>

\* C29: parseClassDetails resolves to a result for every page that has content, whatever
\* sub-steps throw; in every result constructors, properties, methods and examples are
\* lists and the inheritance holds its two lists; and each of the six extracted fields is
\* the empty default when its sub-step throws and is otherwise the value extracted from
\* the page, whatever the other sub-steps do.
C29_CompleteDetail ==
    \A p \in Procs :
        (req[p].op = "parseClassDetails" /\ pc[p] = "done") =>
            LET document == pageOf(req[p].htmlFile)
            IN  /\ document.state = "html" => ret[p] # <<>>
                /\ ret[p] # <<>> =>
                    /\ \A f \in {"constructors", "properties", "methods", "examples"} :
                            IsList(ret[p][1][f])
                    /\ IsList(ret[p][1].inheritance.baseClasses)
                    /\ IsList(ret[p][1].inheritance.hierarchy)
                    /\ \A i \in 1..Len(Steps) :
                            ret[p][1][Steps[i]] =
                                IF throwsIn(document, Steps[i]) THEN EmptyDefault(Steps[i])
                                ELSE parseClassDetails(Sound(document))[1][Steps[i]]

\* the properties sub-step threw on the page of Beam and the methods, which are extracted
\* after it, are in the result
C29_Witness ==
    /\ pc[1] = "done"
    /\ req[1].op = "parseClassDetails"
    /\ req[1].htmlFile = "beam.htm"
    /\ pages["beam.htm"].throws = {"properties"}
    /\ pages["beam.htm"].properties # <<>>
    /\ ret[1] # <<>>
    /\ ret[1][1].properties = <<>>
    /\ ret[1][1].methods # <<>>
    /\ ret[1][1].constructors # <<>>

(***************************************************************************)
(* The MCP server: the CallTool request handler set up by                  *)
(* setupToolHandlers, with the handlers of get_class_details and           *)
(* get_method_details.  An argument is absent from args or is a tagged     *)
(* value [type, value]; the text a handler formats is left out, the reply  *)
(* carries the record.  A rejected call holds the McpError in ret.         *)
(***************************************************************************)
McpError(code, message) == [code |-> code, message |-> message]

\* the catch block of the CallTool handler
catchToolError(name, error) ==
    McpError("InternalError",
             "Tool execution failed for \"" \o name \o "\": " \o error.message)

\* !value || typeof value !== 'string'
invalidString(args, key) ==
    \/ key \notin DOMAIN args
    \/ args[key].type # "string"
    \/ args[key].value = ""

\* the call of a tool ends in the catch block with this error
ToolFails(p, name, args, error) ==
    /\ req' = [req EXCEPT ![p] = [op |-> "callTool", name |-> name, args |-> args]]
    /\ ret' = [ret EXCEPT ![p] = <<catchToolError(name, error)>>]
    /\ pc' = [pc EXCEPT ![p] = "rejected"]
    /\ UNCHANGED <<fixed, apiData, classes, methods, searchIndex, cache, pages, edits, local>>

\* the handler up to the await of the engine call
CallTool(p, name, args) ==
    /\ pc[p] = "idle"
    /\ CASE name = "get_class_details" ->
                IF invalidString(args, "className")
                THEN ToolFails(p, name, args,
                               McpError("InvalidParams",
                                        "className parameter is required and must be a string"))
                ELSE GetClassDetails(p, args.className.value,
                                     IF "includeMembers" \in DOMAIN args
                                     THEN args.includeMembers.value ELSE TRUE)
          [] name = "get_method_details" ->
                IF invalidString(args, "methodName")
                THEN ToolFails(p, name, args,
                               McpError("InvalidParams",
                                        "methodName parameter is required and must be a string"))
                ELSE GetMethodDetails(p, args.methodName.value,
                                      IF "className" \in DOMAIN args
                                      THEN <<args.className.value>> ELSE <<>>)
          [] OTHER ->
                ToolFails(p, name, args, McpError("MethodNotFound", "Unknown tool: " \o name))

\* the handler after the await: a null result is thrown as InvalidParams and caught by
\* the CallTool handler, anything else is the reply
ToolResult(p) ==
    /\ pc[p] = "done"
    /\ req[p].op \in {"getClassDetails", "getMethodDetails"}
    /\ IF ret[p] = <<>>
       THEN /\ pc' = [pc EXCEPT ![p] = "rejected"]
            /\ ret' = [ret EXCEPT ![p] =
                    IF req[p].op = "getClassDetails"
                    THEN <<catchToolError("get_class_details",
                            McpError("InvalidParams",
                                     "Class \"" \o req[p].className
                                        \o "\" not found in API documentation"))>>
                    ELSE <<catchToolError("get_method_details",
                            McpError("InvalidParams",
                                     "Method \"" \o req[p].methodName
                                        \o "\" not found in API documentation"))>>]
       ELSE /\ pc' = [pc EXCEPT ![p] = "replied"]
            /\ ret' = [ret EXCEPT ![p] = <<[content |-> ret[p][1]]>>]
    /\ UNCHANGED <<fixed, apiData, classes, methods, searchIndex, cache, pages, edits, req, local>>

\* the reply or the error has been sent to the client
Respond(p) ==
    /\ pc[p] \in {"replied", "rejected"}
    /\ pc' = [pc EXCEPT ![p] = "idle"]
    /\ req' = [req EXCEPT ![p] = NoRequest]
    /\ local' = [local EXCEPT ![p] = NoLocals]
    /\ ret' = [ret EXCEPT ![p] = <<>>]
    /\ UNCHANGED <<fixed, apiData, classes, methods, searchIndex, cache, pages, edits>>

ToolNames == {"get_class_details", "get_method_details", "get_everything"}

Text(value) == [type |-> "string", value |-> value]

ToolArguments ==
    {<<>>,
     [className |-> Text("Beam")], [className |-> Text("Zed")], [className |-> Text("")],
     [className |-> [type |-> "number", value |-> 5]],
     [className |-> Text("Grid"), includeMembers |-> [type |-> "boolean", value |-> FALSE]],
     [methodName |-> Text("Insert")], [methodName |-> Text("Zed")],
     [methodName |-> Text("Insert"), className |-> Text("Beam")],
     [methodName |-> [type |-> "number", value |-> 5]]}

InitServer ==
    /\ apiData = CanonicalData
    /\ classes \in {SelectSeq(apiData, isClass), <<GridClass, BeamClass>>}
    /\ methods = SelectSeq(apiData, isMethod)
    /\ properties = SelectSeq(apiData, isProperty)
    /\ namespaces = SelectSeq(apiData, isNamespace)
    /\ enums = SelectSeq(apiData, isEnum)
    /\ interfaces = SelectSeq(apiData, isInterface)
    /\ examples = <<>>
    /\ remoteUp \in BOOLEAN
    /\ searchIndex = <<>>
    /\ cache = <<>>
    /\ pages = InitialPages
    /\ edits = 0
    /\ InitRequests

NextServer ==
    \/ \E name \in ToolNames, args \in ToolArguments : CallTool(1, name, args)
    \/ ResumeNotFound(1)
    \/ ResumePoorQuality(1)
    \/ ResumeParse(1)
    \/ ToolResult(1)
    \/ Respond(1)

SpecServer == InitServer /\ [][NextServer]_vars

\* C30: an error of a tool call reaches the client with the code it was raised with:
\* MethodNotFound for an unknown tool name, InvalidParams for a missing or ill-typed
\* required argument and for a class or method that is not found; InternalError is the
\* code of no such error.
C30_OriginalErrorCode ==
    \A p \in Procs :
        pc[p] = "rejected" =>
            ret[p][1].code =
                IF req[p].op = "callTool"
                        /\ req[p].name \notin {"get_class_details", "get_method_details"}
                THEN "MethodNotFound"
                ELSE "InvalidParams"
====
